---------------------------- MODULE Spec2Model ----------------------------
(***************************************************************************)
(* A model of the scheduling and generation core of the bbssys3 bulletin   *)
(* board: response cleaning, the provider failover chain, the admission    *)
(* probability of the ambient loop, persona selection and feedback, and    *)
(* the concurrent generation calls of the posting loops.                   *)
(*                                                                         *)
(* Texts are sequences of Unicode code points, as Python strings are.      *)
(* Probabilities, emotion scalars and weights are integers in fixed-point  *)
(* units named at their definitions.                                       *)
(*                                                                         *)
(* The module holds several specifications over one set of variables; the  *)
(* variables a specification does not use keep their idle values.          *)
(***************************************************************************)
EXTENDS Integers, Sequences, FiniteSets, TLC

VARIABLES
    \* ---- response cleaning (SpecClean)
    text_in,      \* the text handed to the cleaner
    text_out,     \* what the last cleaning pass returned
    text_prev,    \* what the pass before it returned
    cleaner,      \* which implementation is applied: "none" before the first pass
    passes,       \* number of cleaning passes applied to text_in so far
    \* ---- AIManager.generate_response (SpecGen)
    g4f_available,           \* AIManager.g4f_available
    available_combinations,  \* AIManager.available_combinations, in priority order
    gemini_available,        \* GeminiCLIManager.available
    request_count,           \* AIManager.request_count
    success_count,           \* AIManager.success_count
    failure_count,           \* AIManager.failure_count
    stats,                   \* the rows of table ai_connection_stats, in stat_id order
    gen_pc,                  \* where the call is: "idle", "g4f", "gemini", "done"
    gen_idx,                 \* index of the combination the for loop is at
    gemini_attempt,          \* attempts made by GeminiCLIManager.generate_response
    gen_result,              \* the value the call returned: a text, or NoneValue
    attempts,                \* the combinations tried by this call and what each replied
    calls                    \* number of calls of generate_response so far

cleanVars == <<text_in, text_out, text_prev, cleaner, passes>>

genVars ==
    <<g4f_available, available_combinations, gemini_available, request_count,
      success_count, failure_count, stats, gen_pc, gen_idx, gemini_attempt,
      gen_result, attempts, calls>>

\* the ambient loop of start_traditional_auto_posting
VARIABLES
    auto_post_interval,     \* BBSApplication.auto_post_interval, seconds
    loop_pc,                \* position of auto_post_worker in its for loop
    thread_idx,             \* number of threads the for loop has taken
    seconds_since_last_ai_post, \* local of auto_post_worker, seconds
    post_count,             \* thread['post_count'] of the thread at hand
    probability,            \* local of auto_post_worker, in thousandths
    candidate_threads       \* local of auto_post_worker

probVars == <<auto_post_interval, loop_pc, thread_idx,
              seconds_since_last_ai_post, post_count, probability,
              candidate_threads>>

\* PersonaManager and its personas (bbssys3/persona.py)
VARIABLES
    personas,       \* PersonaManager.personas: name -> persona
    db_personas,    \* rows of table personas: name -> saved columns
    now,            \* the clock, in steps of more than a day
    auto_pc,        \* position of generate_auto_post
    auto_persona,   \* its local persona
    post_content,   \* its local post_content, by the keywords it holds
    post_id,        \* local post_id of _execute_post
    auto_result,    \* what generate_auto_post returned last
    persona_ops     \* number of operations begun on the manager

personaVars == <<personas, db_personas, now, auto_pc, auto_persona,
                 post_content, post_id, auto_result, persona_ops>>

\* one persona of the earlier persona module (src/persona.py)
VARIABLES
    legacy,         \* the Persona object
    legacy_db,      \* what save_persona stored of it
    legacy_pc,      \* "off" while this module is not the one running
    legacy_now,     \* the clock
    legacy_result,  \* what generate_auto_post returned last
    legacy_ops      \* number of operations done on the persona

legacyVars == <<legacy, legacy_db, legacy_pc, legacy_now, legacy_result, legacy_ops>>

\* one call of persona selection
VARIABLES
    sel_impl,           \* the module whose selection runs
    active_personas,    \* the active personas, as the selection sees them
    persona_weights,    \* the weights it computes
    sel_pc,             \* position of the selection
    selected_persona    \* index of the persona drawn, 0 for None

selectVars == <<sel_impl, active_personas, persona_weights, sel_pc, selected_persona>>

\* the threads that post for personas (bbssys3/main.py)
VARIABLES
    ambient_pc,         \* auto_post_worker: "idle", or "generating" inside
                        \* ai_manager.generate_response
    ambient_persona,    \* the persona generate_auto_post drew
    response_threads,   \* delayed_response threads: trigger, persona -> position
    follow_ups,         \* delayed_follow_up threads: trigger -> position and queue
    triggers,           \* number of trigger_user_responses calls so far
    scheduled_posts     \* PostScheduler.scheduled_posts, by persona name

schedVars == <<ambient_pc, ambient_persona, response_threads, follow_ups,
               triggers, scheduled_posts>>

\* one posting cycle of auto_post_worker (bbssys3/main.py)
VARIABLES
    cycle_pc,       \* where the worker is: "next" before a candidate, "calling"
                    \* inside generate_auto_post, "sleep" after the for loop
    max_posts,      \* local max_posts
    post_i,         \* the loop variable i, counted from 1
    actual_posts    \* local actual_posts

cycleVars == <<cycle_pc, max_posts, post_i, actual_posts>>

\* the threads that are inside AIManager._update_stats (bbssys3/main.py)
VARIABLES
    stat_calls      \* thread -> position in _update_stats, its arguments and
                    \* its local existing, and the calls it has made

statVars == <<stat_calls>>

\* G4FManager of src/main.py: the provider probe and one reader
VARIABLES
    available_providers,  \* G4FManager.available_providers
    probe_pc,             \* position of find_available_providers
    working_providers,    \* its local working_providers
    reader_pc,            \* position of generate_response
    reader_attempt,       \* its loop variable attempt
    seen_providers,       \* the list get_best_provider indexed
    best_provider,        \* the entry get_best_provider took from it
    probes                \* number of probes started

probeVars == <<available_providers, probe_pc, working_providers, reader_pc,
               reader_attempt, seen_providers, best_provider, probes>>

\* the two posting loops of BBSApplication and what switches them
VARIABLES
    ai_activity_enabled,  \* BBSApplication.ai_activity_enabled
    is_running,           \* PostScheduler.is_running
    window_closed,        \* on_window_close has run
    sched_pc,             \* position of scheduler_worker
    wall_clock,           \* time.time(), in seconds
    last_ai_post_time,    \* column of table threads: thread -> time or NoTime
    ai_posts,             \* AI rows of table posts: thread -> number
    cand,                 \* candidate_threads of auto_post_worker, sorted
    scheduled_intents,    \* PostScheduler.scheduled_posts
    next_intent,          \* number the next scheduled post is known by
    commit_attempts,      \* scheduled post -> calls of add_post made for it
    began_while_disabled  \* history: worker -> its cycle began after AI
                          \* activity was last switched off

loopVars == <<ai_activity_enabled, is_running, window_closed, sched_pc, wall_clock,
              last_ai_post_time, ai_posts, cand, scheduled_intents, next_intent,
              commit_attempts, began_while_disabled>>

VARIABLES
    batch_impl,          \* "bbssys3": auto_post_worker, "legacy": human_like_post_worker
    batch_pc,            \* "off", "head", "posting", "cycle_end", "sleep"
    batch_candidates,    \* candidate_threads after the sort, as thread ids
    batch_max_posts,     \* max_posts (post_count in src/main.py)
    batch_i,             \* the loop variable i, counted from 1
    batch_actual_posts,  \* actual_posts: calls of generate_auto_post that succeeded
    batch_runs,          \* the thread ids generate_auto_post was called for
    sleeps,              \* per finished cycle, its posts and the seconds slept after it
    batch_cycles         \* cycles begun

batchVars == <<batch_impl, batch_pc, batch_candidates, batch_max_posts, batch_i,
               batch_actual_posts, batch_runs, sleeps, batch_cycles>>

VARIABLES
    errors_logged        \* worker -> logger.error calls of the except clause of its loop

logVars == <<errors_logged>>

VARIABLES
    post_rows,           \* the rows of table posts, in insertion order
    thread_rows,         \* thread_id -> post_count, last_post_time, last_ai_post_time
    db_clock,            \* CURRENT_TIMESTAMP, in seconds
    commit_calls,        \* caller -> its call of add_post or _execute_post
    activity,            \* persona name -> post_count and last_post_time of the Persona
    commits_begun        \* calls begun

commitVars == <<post_rows, thread_rows, db_clock, commit_calls, activity, commits_begun>>

\* one call of UserResponseManager.trigger_user_responses and its threads
VARIABLES
    fan_pc,                \* "idle": not called yet, "triggered": the call has returned
    fan_clock,             \* time.time(), in seconds
    trigger_time,          \* fan_clock at the call
    fan_immediate_responders,
                           \* what _select_immediate_responders returned, as names
    response_pc,           \* name -> position of its delayed_response thread
    follow_up_pc,          \* position of the delayed_follow_up thread
    follow_up_wake,        \* the time its first sleep ends
    follow_up_responders,  \* what _select_follow_up_responders returned, as names
    follow_up_i,           \* index of the persona its loop is at
    follow_up_post_at,     \* the time the sleep before add_post ends
    responses              \* history: name -> immediate and follow-up posts
                           \* committed for it and the time of the follow-up

fanVars == <<fan_pc, fan_clock, trigger_time, fan_immediate_responders, response_pc,
             follow_up_pc, follow_up_wake, follow_up_responders, follow_up_i,
             follow_up_post_at, responses>>

vars == <<cleanVars, genVars, probVars, personaVars, legacyVars, selectVars,
          schedVars, cycleVars, statVars, probeVars, loopVars,
      batchVars,
      logVars,
      commitVars,
      fanVars>>

\* what the steps of one part of the program leave alone
notClean ==
    <<genVars, probVars, personaVars, legacyVars, selectVars, schedVars, cycleVars, statVars,
     probeVars, loopVars,
      batchVars,
      logVars,
      commitVars,
      fanVars>>
notGen ==
    <<cleanVars, probVars, personaVars, legacyVars, selectVars, schedVars, cycleVars, statVars,
     probeVars, loopVars,
      batchVars,
      logVars,
      commitVars,
      fanVars>>
notProb ==
    <<cleanVars, genVars, personaVars, legacyVars, selectVars, schedVars, cycleVars, statVars,
     probeVars, loopVars,
      batchVars,
      logVars,
      commitVars,
      fanVars>>
notPersona ==
    <<cleanVars, genVars, probVars, legacyVars, selectVars, schedVars, cycleVars, statVars,
     probeVars, loopVars,
      batchVars,
      logVars,
      commitVars,
      fanVars>>
notLegacy ==
    <<cleanVars, genVars, probVars, personaVars, selectVars, schedVars, cycleVars, statVars,
     probeVars, loopVars,
      batchVars,
      logVars,
      commitVars,
      fanVars>>
notSelect ==
    <<cleanVars, genVars, probVars, personaVars, legacyVars, schedVars, cycleVars, statVars,
     probeVars, loopVars,
      batchVars,
      logVars,
      commitVars,
      fanVars>>
notSched ==
    <<cleanVars, genVars, probVars, personaVars, legacyVars, selectVars, cycleVars, statVars,
     probeVars, loopVars,
      batchVars,
      logVars,
      commitVars,
      fanVars>>
notCycle ==
    <<cleanVars, probVars, legacyVars, selectVars, schedVars, statVars, probeVars,
      loopVars,
      batchVars,
      logVars,
      commitVars,
      fanVars>>
notStat ==
    <<cleanVars, probVars, personaVars, legacyVars, selectVars, schedVars, cycleVars,
      probeVars, loopVars,
      batchVars,
      logVars,
      commitVars,
      fanVars>>
notProbe ==
    <<cleanVars, genVars, probVars, personaVars, legacyVars, selectVars, schedVars,
      cycleVars, statVars, loopVars,
      batchVars,
      logVars,
      commitVars,
      fanVars>>
notLoop ==
    <<cleanVars, genVars, probVars, personaVars, legacyVars, selectVars, schedVars,
      statVars, probeVars,
      batchVars,
      logVars,
      commitVars,
      fanVars>>

(***************************************************************************)
(* Python string primitives                                                *)
(***************************************************************************)

\* The characters for which str.isspace() is true.
WhitespaceChars ==
    (9..13) \cup (28..32) \cup {133, 160, 5760} \cup (8192..8202)
            \cup {8232, 8233, 8239, 8287, 12288}

IsSpace(c) == c \in WhitespaceChars

\* re.IGNORECASE on the ASCII letters: the patterns below are written folded.
Lower(c) == IF c \in 65..90 THEN c + 32 ELSE c

\* str.strip(): the text between its first and its last non-space character.
Strip(s) ==
    IF \A i \in 1..Len(s) : IsSpace(s[i]) THEN <<>>
    ELSE LET lo == CHOOSE i \in 1..Len(s) :
                       ~IsSpace(s[i]) /\ \A j \in 1..(i - 1) : IsSpace(s[j])
             hi == CHOOSE i \in 1..Len(s) :
                       ~IsSpace(s[i]) /\ \A j \in (i + 1)..Len(s) : IsSpace(s[j])
         IN  SubSeq(s, lo, hi)

\* The literal pat occurs in s at position i, ignoring ASCII case.
MatchAt(s, i, pat) ==
    /\ i >= 1
    /\ i + Len(pat) - 1 <= Len(s)
    /\ \A k \in 1..Len(pat) : Lower(s[i + k - 1]) = pat[k]

\* re.search(r'^pat.*', s): '^' matches at the start of the string only.
SearchPrefix(s, pat) == MatchAt(s, 1, pat)

\* re.search(r'.*pat.*', s)
SearchSub(s, pat) == \E i \in 1..Len(s) : MatchAt(s, i, pat)

\* b occurs at or after position from, with no newline between from and it
\* ('.' does not match U+000A).
FollowsOnLine(s, from, b) ==
    \E j \in from..Len(s) :
        /\ MatchAt(s, j, b)
        /\ \A k \in from..(j - 1) : s[k] /= 10

\* re.search(r'.*a.*b.*', s)
SearchPair(s, a, b) ==
    \E i \in 1..Len(s) : MatchAt(s, i, a) /\ FollowsOnLine(s, i + Len(a), b)

\* re.search(r'.*a.*b.*c.*', s)
SearchTriple(s, a, b, c) ==
    \E i \in 1..Len(s) :
        /\ MatchAt(s, i, a)
        /\ \E j \in (i + Len(a))..Len(s) :
               /\ MatchAt(s, j, b)
               /\ \A k \in (i + Len(a))..(j - 1) : s[k] /= 10
               /\ FollowsOnLine(s, j + Len(b), c)

\* First position at or after from that is a newline, or Len(s)+1.
LineEnd(s, from) ==
    IF \E k \in from..Len(s) : s[k] = 10
    THEN CHOOSE k \in from..Len(s) : s[k] = 10 /\ \A m \in from..(k - 1) : s[m] /= 10
    ELSE Len(s) + 1

\* re.sub(r'a.*b.*', '', s) with b possibly empty: every leftmost match runs
\* from an occurrence of a (followed on its line by b) to the end of the line.
RECURSIVE SubFrom(_, _, _, _)
SubFrom(s, from, a, b) ==
    LET hits == {i \in from..Len(s) :
                    MatchAt(s, i, a) /\ (b = <<>> \/ FollowsOnLine(s, i + Len(a), b))}
    IN  IF hits = {} THEN SubSeq(s, from, Len(s))
        ELSE LET i == CHOOSE h \in hits : \A g \in hits : h <= g
                 e == LineEnd(s, i)
             IN  SubSeq(s, from, i - 1) \o SubFrom(s, e, a, b)

ReSubToLineEnd(s, a, b) == SubFrom(s, 1, a, b)

(***************************************************************************)
(* Response cleaning                                                       *)
(***************************************************************************)

\* r'^Error:.*', r'^Sorry.*', r'^I apologize.*', r'^Unable to.*'
AIPrefixPatterns ==
    { <<101, 114, 114, 111, 114, 58>>,
      <<115, 111, 114, 114, 121>>,
      <<105, 32, 97, 112, 111, 108, 111, 103, 105, 122, 101>>,
      <<117, 110, 97, 98, 108, 101, 32, 116, 111>> }

\* r'.*(eraa).*' katakana U+30A8 U+30E9 U+30FC, r'.*(shippai).*' U+5931 U+6557
AISubPatterns == { <<12456, 12521, 12540>>, <<22833, 25943>> }

\* r'.*(riyou).*(dekimasen).*', r'.*AI.*(toshite).*',
\* r'.*(jinkou chinou).*(desu).*', r'.*(joshu).*(desu).*'
AIPairPatterns ==
    { << <<21033, 29992>>, <<12391, 12365, 12414, 12379, 12435>> >>,
      << <<97, 105>>, <<12392, 12375, 12390>> >>,
      << <<20154, 24037, 30693, 33021>>, <<12391, 12377>> >>,
      << <<21161, 25163>>, <<12391, 12377>> >> }

AIMatchesErrorPattern(t) ==
    \/ \E p \in AIPrefixPatterns : SearchPrefix(t, p)
    \/ \E p \in AISubPatterns : SearchSub(t, p)
    \/ \E p \in AIPairPatterns : SearchPair(t, p[1], p[2])

\* The character class r'[...]' of the Japanese check: its members are the
\* characters written between the brackets, U+3072 U+3089 U+304C U+306A
\* (hi ra ga na), U+30AB U+30BF U+30CA (ka ta na), U+6F22 U+5B57 (kan ji).
JapaneseClass == {12402, 12425, 12364, 12394, 12459, 12479, 12490, 28450, 23383}

\* len(re.findall(r'[...]', response))
JapaneseCharCount(s) == Cardinality({i \in 1..Len(s) : s[i] \in JapaneseClass})

\* the number of script characters a response needs
MinJapaneseChars == 2

\* the character budget of a response
MaxResponseLen == 500

Ellipsis == <<46, 46, 46>>

\* AIManager._clean_response
AIClean(response) ==
    IF response = <<>> THEN <<>>
    ELSE IF AIMatchesErrorPattern(Strip(response)) THEN <<>>
    ELSE IF JapaneseCharCount(response) < MinJapaneseChars THEN <<>>
    ELSE IF Len(response) > MaxResponseLen
         THEN Strip(SubSeq(response, 1, MaxResponseLen) \o Ellipsis)
         ELSE Strip(response)

\* r'.*(satsu).*' U+6BBA, r'.*(shi).*' U+6B7B, r'.*(ihou).*' U+9055 U+6CD5
GeminiInappropriateSub == { <<27578>>, <<27515>>, <<36949, 27861>> }

\* r'.*(kiken).*(yakubutsu).*' U+5371 U+967A, U+85AC U+7269
GeminiInappropriatePair == { << <<21361, 38522>>, <<34220, 29289>> >> }

GeminiMatchesInappropriate(t) ==
    \/ \E p \in GeminiInappropriateSub : SearchSub(t, p)
    \/ \E p \in GeminiInappropriatePair : SearchPair(t, p[1], p[2])

\* GeminiCLIManager._clean_response: the same error patterns and Japanese
\* check, then the inappropriate-content patterns; no length limit.
GeminiClean(response) ==
    IF response = <<>> THEN <<>>
    ELSE IF AIMatchesErrorPattern(Strip(response)) THEN <<>>
    ELSE IF JapaneseCharCount(response) < MinJapaneseChars THEN <<>>
    ELSE IF GeminiMatchesInappropriate(Strip(response)) THEN <<>>
    ELSE Strip(response)

\* r'^Error:.*', r'^Sorry.*', r'^I apologize.*', r'^Unable to.*', r'^Cannot.*',
\* r'^I\'m sorry.*', r'^I can\'t.*'
G4FPrefixPatterns ==
    AIPrefixPatterns \cup
    { <<99, 97, 110, 110, 111, 116>>,
      <<105, 39, 109, 32, 115, 111, 114, 114, 121>>,
      <<105, 32, 99, 97, 110, 39, 116>> }

\* 'error occurred', 'something went wrong', 'not available', 'system error',
\* 'service unavailable'; the Chinese U+9519 U+8BEF, U+5931 U+8D25, U+5F02 U+5E38,
\* U+62B1 U+6B49, U+65E0 U+6CD5, U+4E0D U+80FD; the Japanese (eraa), (shippai),
\* (moushiwake) U+7533 U+3057 U+8A33
G4FSubPatterns ==
    { <<101, 114, 114, 111, 114, 32, 111, 99, 99, 117, 114, 114, 101, 100>>,
      <<115, 111, 109, 101, 116, 104, 105, 110, 103, 32, 119, 101, 110, 116, 32,
        119, 114, 111, 110, 103>>,
      <<110, 111, 116, 32, 97, 118, 97, 105, 108, 97, 98, 108, 101>>,
      <<115, 121, 115, 116, 101, 109, 32, 101, 114, 114, 111, 114>>,
      <<115, 101, 114, 118, 105, 99, 101, 32, 117, 110, 97, 118, 97, 105, 108,
        97, 98, 108, 101>>,
      <<38169, 35823>>, <<22833, 36133>>, <<24322, 24120>>, <<25265, 27465>>,
      <<26080, 27861>>, <<19981, 33021>>,
      <<12456, 12521, 12540>>, <<22833, 25943>>, <<30003, 12375, 35379>> }

\* r'.*(xitong).*(cuowu).*', r'.*(riyou).*(dekimasen).*',
\* r'.*(sumimasen).*(shisutemu).*', r'.*AI.*(riyou).*',
\* r'.*(shisutemu).*(eraa).*', r'.*(setsuzoku).*(eraa).*'
G4FPairPatterns ==
    { << <<31995, 32479>>, <<38169, 35823>> >>,
      << <<21033, 29992>>, <<12391, 12365, 12414, 12379, 12435>> >>,
      << <<12377, 12415, 12414, 12379, 12435>>, <<12471, 12473, 12486, 12512>> >>,
      << <<97, 105>>, <<21033, 29992>> >>,
      << <<12471, 12473, 12486, 12512>>, <<12456, 12521, 12540>> >>,
      << <<25509, 32154>>, <<12456, 12521, 12540>> >> }

\* r'.*(genzai).*(riyou).*(dekimasen).*', r'.*(saabisu).*(riyou).*(dekimasen).*',
\* r'.*(outou).*(seisei).*(dekimasen).*'
G4FTriplePatterns ==
    { << <<29694, 22312>>, <<21033, 29992>>, <<12391, 12365, 12414, 12379, 12435>> >>,
      << <<12469, 12540, 12499, 12473>>, <<21033, 29992>>,
         <<12391, 12365, 12414, 12379, 12435>> >>,
      << <<24540, 31572>>, <<29983, 25104>>, <<12391, 12365, 12414, 12379, 12435>> >> }

G4FMatchesErrorPattern(t) ==
    \/ \E p \in G4FPrefixPatterns : SearchPrefix(t, p)
    \/ \E p \in G4FSubPatterns : SearchSub(t, p)
    \/ \E p \in G4FPairPatterns : SearchPair(t, p[1], p[2])
    \/ \E p \in G4FTriplePatterns : SearchTriple(t, p[1], p[2], p[3])

\* G4FManager.clean_response: the error patterns, then three substitutions
\* r'AI.*(toshite).*', r'(jinkou chinou).*(desu).*', r'(ashisutanto).*' by
\* the empty string, then strip(); no Japanese check and no length limit.
G4FClean(response) ==
    IF response = <<>> THEN <<>>
    ELSE IF G4FMatchesErrorPattern(Strip(response)) THEN <<>>
    ELSE LET r1 == ReSubToLineEnd(response, <<97, 105>>, <<12392, 12375, 12390>>)
             r2 == ReSubToLineEnd(r1, <<20154, 24037, 30693, 33021>>, <<12391, 12377>>)
             r3 == ReSubToLineEnd(r2, <<12450, 12471, 12473, 12479, 12531, 12488>>, <<>>)
         IN  Strip(r3)

Cleaners == {"AIManager", "GeminiCLIManager", "G4FManager"}

Clean(impl, t) ==
    CASE impl = "AIManager" -> AIClean(t)
      [] impl = "GeminiCLIManager" -> GeminiClean(t)
      [] impl = "G4FManager" -> G4FClean(t)


(***************************************************************************)
(* SpecClean: the cleaners applied to a bounded family of texts            *)
(***************************************************************************)

\* "Sorry, I cannot help with that."
T_SorryRefusal ==
    <<83, 111, 114, 114, 121, 44, 32, 73, 32, 99, 97, 110, 110, 111, 116, 32, 104,
      101, 108, 112, 32, 119, 105, 116, 104, 32, 116, 104, 97, 116, 46>>

\* 'konnichiwa, kyou wa ii tenki desu ne.' in Japanese script: 17 characters,
\* hiragana and kanji with the punctuation U+3001 and U+3002
T_Konnichiwa ==
    <<12371, 12435, 12395, 12385, 12399, 12289, 20170, 26085, 12399, 12356, 12356,
      22825, 27671, 12391, 12377, 12397, 12290>>

\* the word 'hiragana' written in hiragana: U+3072 U+3089 U+304C U+306A
T_Hiragana == <<12402, 12425, 12364, 12394>>

\* 'kanji desu': U+6F22 U+5B57 U+3067 U+3059
T_Kanji == <<28450, 23383, 12391, 12377>>

\* "Hello"
T_Hello == <<72, 101, 108, 108, 111>>

\* (ashisutanto), newline, "Sorry"
T_AssistantThenSorry ==
    <<12450, 12471, 12473, 12479, 12531, 12488, 10, 83, 111, 114, 114, 121>>

\* 'eraa ga hassei' (an error occurred)
T_ErrorJa == <<12456, 12521, 12540, 12364, 30330, 29983>>

\* longest run of leading blanks put before a text
MaxLead == 2

\* how far below the character budget the filler lengths start
MaxSlack == 5

Blanks(n) == [i \in 1..n |-> 32]

\* n copies of the letter x
Filler(n) == [i \in 1..n |-> 120]

Heads ==
    {<<>>, T_SorryRefusal, T_Konnichiwa, T_Hiragana, T_Hello, T_AssistantThenSorry,
     T_ErrorJa}

FillLens == {0} \cup ((MaxResponseLen - MaxSlack)..MaxResponseLen)

Tails == {<<>>, T_Hiragana}

CleanInputs ==
    { Blanks(w) \o h \o Filler(n) \o t :
        w \in 0..MaxLead, h \in Heads, n \in FillLens, t \in Tails }

CleanIdle ==
    /\ text_in = <<>>
    /\ text_out = <<>>
    /\ text_prev = <<>>
    /\ cleaner = "none"
    /\ passes = 0

CleanInit ==
    /\ text_in \in CleanInputs
    /\ text_out = <<>>
    /\ text_prev = <<>>
    /\ cleaner = "none"
    /\ passes = 0

\* a response goes through one cleaner
FirstPass(impl) ==
    /\ passes = 0
    /\ cleaner' = impl
    /\ text_out' = Clean(impl, text_in)
    /\ text_prev' = text_in
    /\ passes' = 1
    /\ UNCHANGED text_in
    /\ UNCHANGED notClean

\* its result goes through the same cleaner again
SecondPass ==
    /\ passes = 1
    /\ text_prev' = text_out
    /\ text_out' = Clean(cleaner, text_out)
    /\ passes' = 2
    /\ UNCHANGED <<text_in, cleaner>>
    /\ UNCHANGED notClean

(***************************************************************************)
(* AIManager.generate_response: the G4F combinations in priority order,    *)
(* then the Gemini CLI, with the statistics each attempt records.  The     *)
(* database is taken to answer every query and insert.  Response times are *)
(* not modelled.                                                           *)
(***************************************************************************)

\* Texts are sequences of code points, which are never negative; the
\* outcomes that are not a text are sequences holding one negative number.

\* the value None
NoneValue == <<-1>>

\* the call raised (an error or a timeout)
Raise == <<-2>>

\* the gemini subprocess ended with a non-zero return code
NonZeroExit == <<-3>>

\* the combinations _init_g4f tests, sorted by priority
VerifiedCombinations ==
    << [provider |-> "Chatai", model |-> "gpt-3.5-turbo"],
       [provider |-> "Chatai", model |-> "gpt-4"],
       [provider |-> "Bing", model |-> "gpt-4"],
       [provider |-> "You", model |-> "gpt-3.5-turbo"] >>

\* The lists _init_g4f can leave in available_combinations: the verified
\* combinations whose connection test passed, in priority order.
RECURSIVE PickCombos(_, _)
PickCombos(keep, i) ==
    IF i > Len(VerifiedCombinations) THEN <<>>
    ELSE IF i \in keep THEN <<VerifiedCombinations[i]>> \o PickCombos(keep, i + 1)
    ELSE PickCombos(keep, i + 1)

CombinationLists ==
    { PickCombos(keep, 1) : keep \in SUBSET (1..Len(VerifiedCombinations)) }

\* what g4f.ChatCompletion.create can give back: it raises, or it returns an
\* empty response, a refusal, a Japanese text, or a blank followed by one
G4FReplies == {Raise, <<>>, T_SorryRefusal, T_Hiragana, Blanks(1) \o T_Kanji}

\* what one run of the gemini subprocess can give: it raises or times out,
\* it ends with a non-zero return code, or it prints a text
GeminiReplies == {Raise, NonZeroExit, <<>>, T_SorryRefusal, T_Kanji}

\* providers of the rows _init_default_stats creates, each with model "default"
DefaultStatProviders == <<"G4F-Chatai", "G4F-Bing", "G4F-You", "Gemini CLI">>

StatRow(provider_name, model_name, s, f, t) ==
    [provider_name |-> provider_name, model_name |-> model_name,
     success_count |-> s, failure_count |-> f, total_requests |-> t]

\* _init_default_stats on an empty table: total_requests takes the column default
InitialStats ==
    [i \in 1..Len(DefaultStatProviders) |->
        StatRow(DefaultStatProviders[i], "default", 0, 0, 0)]

\* AIManager._update_stats: the counts of the first matching row, one of them
\* incremented, are written to every matching row; without a matching row a
\* new one is inserted.
UpdateStats(rows, provider_name, model_name, success) ==
    LET hits == {i \in 1..Len(rows) : /\ rows[i].provider_name = provider_name
                                      /\ rows[i].model_name = model_name}
    IN  IF hits /= {}
        THEN LET first == rows[CHOOSE i \in hits : \A j \in hits : i <= j]
             IN  [i \in 1..Len(rows) |->
                    IF i \in hits
                    THEN IF success
                         THEN [rows[i] EXCEPT
                                 !.success_count = first.success_count + 1,
                                 !.total_requests = first.total_requests + 1]
                         ELSE [rows[i] EXCEPT
                                 !.failure_count = first.failure_count + 1,
                                 !.total_requests = first.total_requests + 1]
                    ELSE rows[i]]
        ELSE Append(rows,
                    StatRow(provider_name, model_name,
                            IF success THEN 1 ELSE 0, IF success THEN 0 ELSE 1, 1))

\* f"G4F-{provider.__name__}"
G4FStatName(combination) == "G4F-" \o combination.provider

\* GeminiCLIManager.max_retries
GeminiMaxRetries == 3

\* number of generate_response calls the model follows
MaxCalls == 1

GenIdle ==
    /\ g4f_available = FALSE
    /\ available_combinations = <<>>
    /\ gemini_available = FALSE
    /\ request_count = 0
    /\ success_count = 0
    /\ failure_count = 0
    /\ stats = <<>>
    /\ gen_pc = "idle"
    /\ gen_idx = 0
    /\ gemini_attempt = 0
    /\ gen_result = NoneValue
    /\ attempts = <<>>
    /\ calls = 0

\* AIManager.__init__: _init_g4f leaves g4f_available true exactly when it
\* found a working combination (false also when the g4f library is missing).
GenInit ==
    /\ available_combinations \in CombinationLists
    /\ g4f_available = (available_combinations /= <<>>)
    /\ gemini_available \in BOOLEAN
    /\ request_count = 0
    /\ success_count = 0
    /\ failure_count = 0
    /\ stats = InitialStats
    /\ gen_pc = "idle"
    /\ gen_idx = 0
    /\ gemini_attempt = 0
    /\ gen_result = NoneValue
    /\ attempts = <<>>
    /\ calls = 0

\* generate_response is entered: the request is counted and the G4F loop
\* is taken when there is a combination to try.
GenStart ==
    /\ gen_pc = "idle"
    /\ calls < MaxCalls
    /\ calls' = calls + 1
    /\ request_count' = request_count + 1
    /\ attempts' = <<>>
    /\ gen_result' = NoneValue
    /\ gemini_attempt' = 0
    /\ IF g4f_available /\ available_combinations /= <<>>
       THEN gen_pc' = "g4f" /\ gen_idx' = 1
       ELSE gen_pc' = "gemini" /\ gen_idx' = 0
    /\ UNCHANGED <<g4f_available, available_combinations, gemini_available,
                   success_count, failure_count, stats>>
    /\ UNCHANGED notGen

\* the for loop left at the first combination that did not return
AfterCombination_break ==
    gen_pc' = "gemini" /\ gen_idx' = 0

\* where the for loop goes after the combination at gen_idx did not return
AfterCombination ==
    IF gen_idx < Len(available_combinations)
    THEN gen_pc' = "g4f" /\ gen_idx' = gen_idx + 1
    ELSE gen_pc' = "gemini" /\ gen_idx' = 0

\* One iteration of the for loop: the combination replies.  A reply that is
\* not empty and that _clean_response accepts is recorded as a success and
\* returned; an exception is recorded as a failure; an empty or rejected
\* reply records nothing; the loop goes on in both of these cases.
G4FAttempt(reply) ==
    /\ gen_pc = "g4f"
    /\ LET combination == available_combinations[gen_idx]
           cleaned == IF reply = Raise THEN <<>> ELSE AIClean(reply)
       IN  /\ attempts' = Append(attempts, [combination |-> combination, reply |-> reply])
           /\ IF reply = Raise
              THEN /\ stats' = UpdateStats(stats, G4FStatName(combination),
                                           combination.model, FALSE)
                   /\ AfterCombination
                   /\ UNCHANGED <<success_count, gen_result>>
              ELSE IF reply /= <<>> /\ cleaned /= <<>>
              THEN /\ stats' = UpdateStats(stats, G4FStatName(combination),
                                           combination.model, TRUE)
                   /\ success_count' = success_count + 1
                   /\ gen_result' = cleaned
                   /\ gen_pc' = "done"
                   /\ gen_idx' = 0
              ELSE /\ AfterCombination
                   /\ UNCHANGED <<stats, success_count, gen_result>>
    /\ UNCHANGED <<g4f_available, available_combinations, gemini_available,
                   request_count, failure_count, gemini_attempt, calls>>
    /\ UNCHANGED notGen

\* The Gemini CLI is not available: the call fails.
GeminiUnavailable ==
    /\ gen_pc = "gemini"
    /\ ~gemini_available
    /\ failure_count' = failure_count + 1
    /\ gen_result' = NoneValue
    /\ gen_pc' = "done"
    /\ UNCHANGED <<g4f_available, available_combinations, gemini_available,
                   request_count, success_count, stats, gen_idx, gemini_attempt,
                   attempts, calls>>
    /\ UNCHANGED notGen

\* One attempt of GeminiCLIManager.generate_response.  A printed text that
\* its _clean_response accepts ends the call with a recorded success; after
\* the last failed attempt one failure is recorded and the call fails.
GeminiAttempt(reply) ==
    /\ gen_pc = "gemini"
    /\ gemini_available
    /\ gemini_attempt < GeminiMaxRetries
    /\ gemini_attempt' = gemini_attempt + 1
    /\ LET cleaned == IF reply \in {Raise, NonZeroExit} THEN <<>>
                      ELSE GeminiClean(Strip(reply))
       IN  IF cleaned /= <<>>
           THEN /\ stats' = UpdateStats(stats, "Gemini CLI", "gemini-pro", TRUE)
                /\ success_count' = success_count + 1
                /\ gen_result' = cleaned
                /\ gen_pc' = "done"
                /\ UNCHANGED failure_count
           ELSE IF gemini_attempt + 1 = GeminiMaxRetries
           THEN /\ stats' = UpdateStats(stats, "Gemini CLI", "gemini-pro", FALSE)
                /\ failure_count' = failure_count + 1
                /\ gen_result' = NoneValue
                /\ gen_pc' = "done"
                /\ UNCHANGED success_count
           ELSE UNCHANGED <<stats, success_count, failure_count, gen_result, gen_pc>>
    /\ UNCHANGED <<g4f_available, available_combinations, gemini_available,
                   request_count, gen_idx, attempts, calls>>
    /\ UNCHANGED notGen

\* the caller has the result
GenReturn ==
    /\ gen_pc = "done"
    /\ gen_pc' = "idle"
    /\ UNCHANGED <<g4f_available, available_combinations, gemini_available,
                   request_count, success_count, failure_count, stats, gen_idx,
                   gemini_attempt, gen_result, attempts, calls>>
    /\ UNCHANGED notGen

(***************************************************************************)
(* The ambient loop: auto_post_worker of start_traditional_auto_posting    *)
(* computes an admission probability for each thread it looks at.  The     *)
(* worker is a daemon thread; update_interval runs in the Tk main thread   *)
(* and can assign auto_post_interval between any two reads of the worker.  *)
(* Probabilities are in thousandths, times in whole seconds.               *)
(***************************************************************************)

Min(a, b) == IF a <= b THEN a ELSE b

\* base_probability = 0.2
BaseProbability == 200

\* probability = min(0.8, ...)
ProbabilityCeiling == 800

\* get_seconds_since_last_ai_post when the thread has no AI post
NeverPosted == 999999

\* BBSApplication.__init__: auto_post_interval = 30
DefaultInterval == 30

\* the ends of the interval scale of the admin window
ScaleFrom == 10
ScaleTo == 300

\* values the scale is moved to
ScaleValues == {ScaleFrom, DefaultInterval, 60, ScaleTo}

\* elapsed times and post counts of the threads the loop meets
ElapsedValues == {0, 30, 100, 400, NeverPosted}
PostCounts == {0, 5, 50}

\* values of random.random(), in thousandths
RandomValues == {0, 150, 500, 999}

\* number of threads one pass of the loop looks at
MaxThreads == 2

ProbIdle ==
    /\ auto_post_interval = DefaultInterval
    /\ loop_pc = "off"
    /\ thread_idx = 0
    /\ seconds_since_last_ai_post = 0
    /\ post_count = 0
    /\ probability = 0
    /\ candidate_threads = <<>>

\* the application is built and the worker enters its loop
ProbInit ==
    /\ auto_post_interval = DefaultInterval
    /\ loop_pc = "next"
    /\ thread_idx = 0
    /\ seconds_since_last_ai_post = 0
    /\ post_count = 0
    /\ probability = 0
    /\ candidate_threads = <<>>

\* update_interval: the scale was moved
update_interval(value) ==
    /\ loop_pc /= "off"
    /\ auto_post_interval /= value
    /\ auto_post_interval' = value
    /\ UNCHANGED <<loop_pc, thread_idx,
                   seconds_since_last_ai_post, post_count, probability,
                   candidate_threads>>
    /\ UNCHANGED notProb

\* The for loop takes a thread that is not locked, reads its elapsed time
\* and makes the interval check.
CheckInterval(elapsed, posts) ==
    /\ loop_pc = "next"
    /\ thread_idx < MaxThreads
    /\ thread_idx' = thread_idx + 1
    /\ seconds_since_last_ai_post' = elapsed
    /\ post_count' = posts
    /\ loop_pc' = IF elapsed >= auto_post_interval THEN "checked" ELSE "next"
    /\ UNCHANGED <<auto_post_interval, probability,
                   candidate_threads>>
    /\ UNCHANGED notProb

\* min(0.8, base_probability + time_bonus + thread_popularity), as the code
\* computes it from the interval it reads now: time_bonus is 0.002 a second,
\* thread_popularity min(0.3, post_count * 0.01)
AdmissionProbability(elapsed, interval, posts) ==
    LET time_bonus == (elapsed - interval) * 2
        thread_popularity == Min(300, posts * 10)
    IN  Min(ProbabilityCeiling, BaseProbability + time_bonus + thread_popularity)

ComputeProbability ==
    /\ loop_pc = "checked"
    /\ probability' = AdmissionProbability(seconds_since_last_ai_post,
                                           auto_post_interval, post_count)
    /\ loop_pc' = "computed"
    /\ UNCHANGED <<auto_post_interval, thread_idx,
                   seconds_since_last_ai_post, post_count, candidate_threads>>
    /\ UNCHANGED notProb

\* if random.random() < probability: candidate_threads.append(...)
Admit(r) ==
    /\ loop_pc = "computed"
    /\ candidate_threads' =
          IF r < probability
          THEN Append(candidate_threads,
                      [seconds_since |-> seconds_since_last_ai_post,
                       post_count |-> post_count,
                       probability |-> probability])
          ELSE candidate_threads
    /\ loop_pc' = "next"
    /\ UNCHANGED <<auto_post_interval, thread_idx,
                   seconds_since_last_ai_post, post_count, probability>>
    /\ UNCHANGED notProb

\* the for loop is over; the next pass of the while loop starts afresh
NextPass ==
    /\ loop_pc = "next"
    /\ thread_idx > 0
    /\ thread_idx' = 0
    /\ candidate_threads' = <<>>
    /\ UNCHANGED <<auto_post_interval, loop_pc,
                   seconds_since_last_ai_post, post_count, probability>>
    /\ UNCHANGED notProb

(***************************************************************************)
(* Personas of bbssys3/persona.py.  Scalars are in thousandths.  Of the    *)
(* personality traits and emotions the model keeps those that are written  *)
(* after the dataclass defaults and the in-range uniform draws of          *)
(* construction: the ones _set_gender_traits adds to, and the emotions     *)
(* update_emotion is called for.                                           *)
(***************************************************************************)

Max(a, b) == IF a >= b THEN a ELSE b

\* 1.0 in thousandths
Unit == 1000

\* max(0.0, min(1.0, value))
ClampUnit(value) == Max(0, Min(Unit, value))

\* last_post_time = None
NoTime == -1

PersonaNames == {"p1", "p2"}

\* Gender of each persona generate_all_personas builds
GenderOf == [n \in PersonaNames |-> IF n = "p1" THEN "FEMALE" ELSE "MALE"]

\* The random draws of one construction: the value _set_generation_traits
\* leaves in competitiveness and assertiveness (the default 0.5 or a draw up
\* to 0.9), the additions of _set_gender_traits (large, small and emotion),
\* whether _set_special_attributes makes a troll, and the activity level.
ConstructionDraws ==
    { [competitiveness |-> 500, assertiveness |-> 500, large |-> 100,
       small |-> 50, emotion |-> 50, troll |-> FALSE, activity_level |-> 300],
      [competitiveness |-> 900, assertiveness |-> 800, large |-> 300,
       small |-> 200, emotion |-> 150, troll |-> FALSE, activity_level |-> 800],
      [competitiveness |-> 900, assertiveness |-> 500, large |-> 300,
       small |-> 200, emotion |-> 150, troll |-> TRUE, activity_level |-> 800] }

\* PersonalityTraits after _set_generation_traits and _set_gender_traits,
\* before _normalize_personality_values
RawPersonality(gender, d) ==
    [agreeableness |-> 500 + (IF gender = "FEMALE" THEN d.small ELSE 0),
     empathy |-> 500 + (IF gender = "FEMALE" THEN d.large ELSE 0),
     assertiveness |-> d.assertiveness + (IF gender = "MALE" THEN d.large ELSE 0),
     competitiveness |-> d.competitiveness + (IF gender = "MALE" THEN d.small ELSE 0)]

\* _normalize_personality_values
NormalizePersonality(t) == [f \in DOMAIN t |-> ClampUnit(t[f])]

\* _set_special_attributes for a troll: uniform(0.0, 0.3), uniform(0.7, 1.0)
SpecialAttributes(t, d) ==
    IF d.troll THEN [t EXCEPT !.agreeableness = 300, !.assertiveness = Unit] ELSE t

\* EmotionalState() with the additions of _set_gender_traits
NewEmotions(gender, d) ==
    [happiness |-> 500 + (IF gender = "FEMALE" THEN d.emotion ELSE 0),
     anger |-> 100,
     sadness |-> 100,
     confidence |-> 500 + (IF gender = "MALE" THEN d.emotion ELSE 0)]

\* Persona.__init__
NewPersona(gender, d) ==
    [personality |-> SpecialAttributes(NormalizePersonality(RawPersonality(gender, d)), d),
     emotions |-> NewEmotions(gender, d),
     activity_level |-> d.activity_level,
     post_count |-> 0,
     last_post_time |-> NoTime,
     history_len |-> 0,
     is_active |-> TRUE]

\* update_emotion without its max and min
update_emotion_unclamped(emotions, emotion_type, delta) ==
    [emotions EXCEPT ![emotion_type] = emotions[emotion_type] + delta]

\* EmotionalState.update_emotion
update_emotion(emotions, emotion_type, delta) ==
    [emotions EXCEPT ![emotion_type] = ClampUnit(emotions[emotion_type] + delta)]

\* What a post can hold: neither keyword list, a positive keyword, a
\* negative keyword, or both.  "empty" is _generate_post_content failing.
ContentKinds == {"empty", "neutral", "positive", "negative", "mixed"}

\* interaction_history[-100:]
HistoryCap == 100

\* Persona.update_activity
update_activity(persona, content) ==
    LET e1 == IF content \in {"positive", "mixed"}
              THEN update_emotion(persona.emotions, "happiness", 100)
              ELSE persona.emotions
        e2 == IF content \in {"negative", "mixed"}
              THEN update_emotion(e1, "anger", 100)
              ELSE e1
    IN  [persona EXCEPT
            !.post_count = @ + 1,
            !.last_post_time = now,
            !.emotions = e2,
            !.history_len = Min(HistoryCap, @ + 1)]

\* number of operations on the manager the model follows
MaxPersonaOps == 4

PersonaIdle ==
    /\ personas = << >>
    /\ db_personas = << >>
    /\ now = 0
    /\ auto_pc = "off"
    /\ auto_persona = "none"
    /\ post_content = "empty"
    /\ post_id = 0
    /\ auto_result = FALSE
    /\ persona_ops = 0

\* The columns _save_persona_to_db writes that load_personas_from_db reads
SavedRow(persona) ==
    [agreeableness |-> persona.personality.agreeableness,
     emotion_state |-> persona.emotions,
     history_len |-> persona.history_len,
     activity_level |-> persona.activity_level,
     post_count |-> persona.post_count,
     is_active |-> persona.is_active]

\* PersonaManager.__init__: generate_all_personas, then save_all_personas
PersonaInit ==
    /\ \E d \in [PersonaNames -> ConstructionDraws] :
          personas = [n \in PersonaNames |-> NewPersona(GenderOf[n], d[n])]
    /\ db_personas = [n \in PersonaNames |-> SavedRow(personas[n])]
    /\ now = 0
    /\ auto_pc = "idle"
    /\ auto_persona = "none"
    /\ post_content = "empty"
    /\ post_id = 0
    /\ auto_result = FALSE
    /\ persona_ops = 0

\* select_posting_persona: random.choices draws an active persona whose
\* weight, its activity level, is positive
SelectableBbssys3(n) ==
    /\ n \in DOMAIN personas
    /\ personas[n].is_active
    /\ personas[n].activity_level > 0

\* generate_auto_post up to the call of _execute_post: the persona is drawn,
\* the thread is read and the content is generated.  Without a thread or
\* without content it returns False.
PreparePost(n, thread_found, content) ==
    /\ auto_pc = "idle"
    /\ persona_ops < MaxPersonaOps
    /\ persona_ops' = persona_ops + 1
    /\ SelectableBbssys3(n)
    /\ auto_persona' = n
    /\ IF thread_found /\ content /= "empty"
       THEN auto_pc' = "execute" /\ post_content' = content /\ UNCHANGED auto_result
       ELSE auto_pc' = "done" /\ post_content' = "empty" /\ auto_result' = FALSE
    /\ UNCHANGED <<personas, db_personas, now, post_id>>
    /\ UNCHANGED notPersona

\* what execute_insert returns: the new row id, or -1 when the insert failed
InsertResults == {1, 0, -1}

\* _execute_post returning True whatever the insert did
PostCommitted_always(raised, id) == TRUE

\* _execute_post returns True
PostCommitted(raised, id) == ~raised /\ id > 0

\* _execute_post and the rest of generate_auto_post: the insert returns an
\* id or the call raises; update_activity runs when _execute_post was True.
ExecutePost(raised, id) ==
    /\ auto_pc = "execute"
    /\ post_id' = IF raised THEN post_id ELSE id
    /\ IF PostCommitted(raised, id)
       THEN /\ personas' = [personas EXCEPT
                  ![auto_persona] = update_activity(@, post_content)]
            /\ auto_result' = TRUE
       ELSE /\ UNCHANGED personas
            /\ auto_result' = FALSE
    /\ auto_pc' = "done"
    /\ UNCHANGED <<db_personas, now, auto_persona, post_content, persona_ops>>
    /\ UNCHANGED notPersona

\* the caller of generate_auto_post has the result; the locals are gone
AutoPostReturn ==
    /\ auto_pc = "done"
    /\ auto_pc' = "idle"
    /\ auto_persona' = "none"
    /\ post_content' = "empty"
    /\ post_id' = 0
    /\ UNCHANGED <<personas, db_personas, now, auto_result, persona_ops>>
    /\ UNCHANGED notPersona

\* record_user_interaction for a post that mentions persona n
record_user_interaction(n) ==
    /\ auto_pc /= "off"
    /\ persona_ops < MaxPersonaOps
    /\ persona_ops' = persona_ops + 1
    /\ n \in DOMAIN personas
    /\ personas' = [personas EXCEPT
          ![n].history_len = @ + 1,
          ![n].emotions = update_emotion(@, "happiness", 50)]
    /\ UNCHANGED <<db_personas, now, auto_pc, auto_persona, post_content,
                   post_id, auto_result>>
    /\ UNCHANGED notPersona

\* update_all_personas, for one persona
DecayPersona(persona) ==
    LET e1 == IF persona.emotions.anger > 100
              THEN update_emotion(persona.emotions, "anger", -10)
              ELSE persona.emotions
        e2 == IF e1.sadness > 100 THEN update_emotion(e1, "sadness", -10) ELSE e1
    IN  [persona EXCEPT
            !.emotions = e2,
            !.activity_level =
                IF persona.last_post_time /= NoTime /\ now - persona.last_post_time >= 1
                THEN Max(100, @ - 10) ELSE @]

update_all_personas ==
    /\ auto_pc /= "off"
    /\ persona_ops < MaxPersonaOps
    /\ persona_ops' = persona_ops + 1
    /\ personas' = [n \in DOMAIN personas |-> DecayPersona(personas[n])]
    /\ UNCHANGED <<db_personas, now, auto_pc, auto_persona, post_content,
                   post_id, auto_result>>
    /\ UNCHANGED notPersona

\* more than 24 hours pass
Tick ==
    /\ auto_pc /= "off"
    /\ persona_ops < MaxPersonaOps
    /\ persona_ops' = persona_ops + 1
    /\ now' = now + 1
    /\ UNCHANGED <<personas, db_personas, auto_pc, auto_persona, post_content,
                   post_id, auto_result>>
    /\ UNCHANGED notPersona

\* save_all_personas
save_all_personas ==
    /\ auto_pc /= "off"
    /\ persona_ops < MaxPersonaOps
    /\ persona_ops' = persona_ops + 1
    /\ db_personas' = [n \in DOMAIN personas |-> SavedRow(personas[n])]
    /\ UNCHANGED <<personas, now, auto_pc, auto_persona, post_content,
                   post_id, auto_result>>
    /\ UNCHANGED notPersona

\* load_personas_from_db, for one row: a new MALE persona is built and the
\* saved columns are written over it
RestoredPersona(row, d) ==
    LET fresh == NewPersona("MALE", d)
    IN  [fresh EXCEPT
            !.personality.agreeableness = row.agreeableness,
            !.emotions = row.emotion_state,
            !.history_len = row.history_len,
            !.activity_level = row.activity_level,
            !.post_count = row.post_count,
            !.is_active = row.is_active]

load_personas_from_db(d) ==
    /\ auto_pc = "idle"
    /\ persona_ops < MaxPersonaOps
    /\ persona_ops' = persona_ops + 1
    /\ personas' = [n \in DOMAIN personas |->
                      IF n \in DOMAIN db_personas /\ db_personas[n].is_active
                      THEN RestoredPersona(db_personas[n], d)
                      ELSE personas[n]]
    /\ UNCHANGED <<db_personas, now, auto_pc, auto_persona, post_content,
                   post_id, auto_result>>
    /\ UNCHANGED notPersona

(***************************************************************************)
(* The Persona of src/persona.py.  Scalars are in thousandths; products    *)
(* with 0.5, 0.6, 0.95 and 1.5 are rounded down to a thousandth.  Of the   *)
(* traits and emotions the model keeps those written after construction,   *)
(* and those construction adds to.                                         *)
(***************************************************************************)

Generations == {"1950s-60s", "1970s-80s", "1990s-2000s", "2010s-20s"}

\* Templates of initialize_personas with the draws of their uniform ranges:
\* a kind elder of type E..F., a young persona of type I..T., and the troll
\* "enjou mania" of type ESTP.
LegacyTemplates ==
    { [generation |-> "1950s-60s", is_troll |-> FALSE, mbti_E |-> TRUE, mbti_T |-> FALSE,
       e |-> 700, a |-> 900, n |-> 600,
       anger |-> 200, kindness |-> 1000, sadness |-> 300, joy |-> 800],
      [generation |-> "2010s-20s", is_troll |-> FALSE, mbti_E |-> FALSE, mbti_T |-> TRUE,
       e |-> 200, a |-> 600, n |-> 200,
       anger |-> 0, kindness |-> 700, sadness |-> 100, joy |-> 1000],
      [generation |-> "1990s-2000s", is_troll |-> TRUE, mbti_E |-> TRUE, mbti_T |-> TRUE,
       e |-> 800, a |-> 100, n |-> 900,
       anger |-> 700, kindness |-> 100, sadness |-> 200, joy |-> 600] }

\* _generate_personality_from_template: big5, the MBTI adjustments, each
\* clamped, and the draws of a troll
LegacyPersonality(t) ==
    [extroversion |-> ClampUnit(t.e + (IF t.mbti_E THEN 300 ELSE -300)),
     agreeableness |-> IF t.is_troll THEN 300
                       ELSE ClampUnit(t.a + (IF t.mbti_T THEN 0 ELSE 200)),
     neuroticism |-> IF t.is_troll THEN 900 ELSE t.n,
     skepticism |-> IF t.is_troll THEN 900
                    ELSE ClampUnit(500 + (IF t.mbti_T THEN 200 ELSE 0))]

\* _generate_emotions_from_template
LegacyEmotions(t) ==
    [happiness |-> Max(t.kindness, (t.joy * 4) \div 10),
     sadness |-> t.sadness,
     anger |-> t.anger,
     fear |-> 0,
     surprise |-> IF t.generation = "2010s-20s" THEN 100 ELSE 0,
     excitement |-> (t.joy * 6) \div 10 + (IF t.generation = "2010s-20s" THEN 100 ELSE 0),
     calmness |-> 700 + (IF t.generation = "1950s-60s" THEN 200 ELSE 0),
     curiosity_emotion |-> 400,
     confidence |-> 500,
     frustration |-> 0]

\* Persona.__init__
LegacyPersona(t) ==
    [generation |-> t.generation,
     is_troll |-> t.is_troll,
     mbti_E |-> t.mbti_E,
     mbti_T |-> t.mbti_T,
     personality |-> LegacyPersonality(t),
     emotions |-> LegacyEmotions(t),
     memories |-> 0,
     recent_positive |-> 0,
     post_count |-> 0,
     last_post_time |-> NoTime]

\* 0.1 * intensity, by generation
ReactionOf(generation) ==
    CASE generation = "1950s-60s" -> 80
      [] generation = "1970s-80s" -> 100
      [] generation = "1990s-2000s" -> 110
      [] OTHER -> 130

DecayRateOf(generation) ==
    CASE generation = "1950s-60s" -> 30
      [] generation = "1970s-80s" -> 50
      [] generation = "1990s-2000s" -> 60
      [] OTHER -> 80

LearningRateOf(generation) ==
    CASE generation = "1950s-60s" -> 5
      [] generation = "1970s-80s" -> 8
      [] generation = "1990s-2000s" -> 10
      [] OTHER -> 15

\* the word lists a stimulus has a word of
Stimuli == [positive : BOOLEAN, negative : BOOLEAN, surprising : BOOLEAN]

\* Persona._decay_emotions
DecayEmotions(e, generation) ==
    LET decay_rate == DecayRateOf(generation)
    IN  [e EXCEPT
            !.anger = Max(0, @ - decay_rate),
            !.sadness = Max(0, @ - decay_rate),
            !.fear = Max(0, @ - decay_rate),
            !.surprise = Max(0, @ - decay_rate),
            !.frustration = Max(0, @ - decay_rate),
            !.happiness = (@ * 95) \div 100 + 25,
            !.calmness = (@ * 95) \div 100 + 35,
            !.confidence = (@ * 95) \div 100 + 25]

\* Persona.update_emotions
update_emotions(persona, stimulus) ==
    LET base == ReactionOf(persona.generation)
        emotion_change == IF persona.personality.neuroticism > 700
                          THEN (base * 3) \div 2 ELSE base
        e0 == persona.emotions
        e1 == IF stimulus.positive
              THEN [e0 EXCEPT !.happiness = Min(Unit, @ + emotion_change),
                              !.sadness = Max(0, @ - emotion_change \div 2)]
              ELSE e0
        e2 == IF ~stimulus.negative THEN e1
              ELSE IF persona.is_troll
              THEN [e1 EXCEPT !.anger = Min(Unit, @ + (emotion_change * 3) \div 2),
                              !.frustration = Min(Unit, @ + emotion_change)]
              ELSE [e1 EXCEPT !.sadness = Min(Unit, @ + emotion_change),
                              !.happiness = Max(0, @ - emotion_change \div 2)]
        e3 == IF stimulus.surprising
              THEN [e2 EXCEPT !.surprise = Min(Unit, @ + emotion_change * 2),
                              !.curiosity_emotion = Min(Unit, @ + emotion_change)]
              ELSE e2
    IN  [persona EXCEPT !.emotions = DecayEmotions(e3, persona.generation)]

\* LearningMemory keeps at most 1000 memories; the adjustment looks at the
\* last 20 once there are more than 50
MemoryCap == 1000
RecentWindow == 20
LearningThreshold == 50

\* Persona._adjust_personality_from_learning.  No caller gives a feedback
\* below 0.4, so negative_interactions is 0.
AdjustPersonality(persona) ==
    LET adjustment == LearningRateOf(persona.generation)
    IN  IF persona.recent_positive > 0
        THEN [persona EXCEPT
                !.personality.agreeableness = Min(Unit, @ + adjustment),
                !.personality.extroversion = Min(Unit, @ + adjustment \div 2)]
        ELSE persona

\* Persona.learn_from_interaction: positive says the feedback is above 0.6,
\* evicted_positive that the memory leaving the last 20 was
learn_from_interaction(persona, positive, evicted_positive) ==
    LET remembered ==
            [persona EXCEPT
                !.memories = Min(MemoryCap, @ + 1),
                !.recent_positive = @ - (IF evicted_positive THEN 1 ELSE 0)
                                      + (IF positive THEN 1 ELSE 0)]
    IN  IF remembered.memories > LearningThreshold
        THEN AdjustPersonality(remembered) ELSE remembered

\* what the memory leaving the last 20 can have been
EvictionPossible(persona, evicted_positive) ==
    IF persona.memories < RecentWindow THEN ~evicted_positive
    ELSE IF evicted_positive THEN persona.recent_positive > 0
    ELSE persona.recent_positive < RecentWindow

\* number of operations on the persona the model follows
MaxLegacyOps == 3

LegacyIdle ==
    /\ legacy = << >>
    /\ legacy_db = << >>
    /\ legacy_pc = "off"
    /\ legacy_now = 0
    /\ legacy_result = FALSE
    /\ legacy_ops = 0

\* what save_persona stores that initialize_personas reads back
LegacySaved(persona) ==
    [generation |-> persona.generation,
     is_troll |-> persona.is_troll,
     mbti_E |-> persona.mbti_E,
     mbti_T |-> persona.mbti_T,
     e |-> persona.personality.extroversion,
     a |-> persona.personality.agreeableness,
     n |-> persona.personality.neuroticism,
     anger |-> persona.emotions.anger,
     kindness |-> persona.emotions.happiness,
     sadness |-> persona.emotions.sadness,
     joy |-> persona.emotions.excitement,
     memories |-> Min(100, persona.memories),
     recent_positive |-> persona.recent_positive]

\* The persona is built from a template; it has no memories yet, or it has
\* the memories of 50 earlier interactions, none or all of the last 20 with
\* a feedback above 0.6.
LegacyInit ==
    /\ \E t \in LegacyTemplates, m \in {0, LearningThreshold}, r \in {0, RecentWindow} :
          /\ m = 0 => r = 0
          /\ legacy = [LegacyPersona(t) EXCEPT !.memories = m, !.recent_positive = r]
    /\ legacy_db = LegacySaved(legacy)
    /\ legacy_pc = "idle"
    /\ legacy_now = 0
    /\ legacy_result = FALSE
    /\ legacy_ops = 0

\* generate_auto_post of the earlier PersonaManager with this persona drawn:
\* the state is updated only when there is a response and the insert
\* returned a row id.
legacy_generate_auto_post(response_ok, stimulus, raised, id, evicted_positive) ==
    /\ legacy_pc = "idle"
    /\ legacy_ops < MaxLegacyOps
    /\ legacy_ops' = legacy_ops + 1
    /\ legacy_now' = legacy_now + 1
    /\ EvictionPossible(legacy, evicted_positive)
    /\ IF response_ok /\ ~raised /\ id > 0
       THEN /\ legacy' = learn_from_interaction(
                            update_emotions([legacy EXCEPT !.post_count = @ + 1,
                                                           !.last_post_time = legacy_now'],
                                            stimulus),
                            FALSE, evicted_positive)
            /\ legacy_db' = LegacySaved(legacy')
            /\ legacy_result' = TRUE
       ELSE /\ UNCHANGED <<legacy, legacy_db>>
            /\ legacy_result' = FALSE
    /\ UNCHANGED legacy_pc
    /\ UNCHANGED notLegacy

\* record_user_interaction of the earlier PersonaManager: feedback is
\* 0.7 * intensity, above 0.6 for every generation but the oldest
legacy_record_user_interaction(stimulus, evicted_positive) ==
    /\ legacy_pc = "idle"
    /\ legacy_ops < MaxLegacyOps
    /\ legacy_ops' = legacy_ops + 1
    /\ EvictionPossible(legacy, evicted_positive)
    /\ legacy' = learn_from_interaction(update_emotions(legacy, stimulus),
                                        legacy.generation /= "1950s-60s",
                                        evicted_positive)
    /\ UNCHANGED <<legacy_db, legacy_pc, legacy_now, legacy_result>>
    /\ UNCHANGED notLegacy

\* initialize_personas on a restart: Persona.from_dict builds the persona
\* anew from the stored row
legacy_initialize_personas ==
    /\ legacy_pc = "idle"
    /\ legacy_ops < MaxLegacyOps
    /\ legacy_ops' = legacy_ops + 1
    /\ legacy' = [LegacyPersona(legacy_db) EXCEPT
                    !.memories = legacy_db.memories,
                    !.recent_positive = Min(legacy_db.memories, legacy_db.recent_positive)]
    /\ UNCHANGED <<legacy_db, legacy_pc, legacy_now, legacy_result>>
    /\ UNCHANGED notLegacy

(***************************************************************************)
(* Persona selection: select_posting_persona of bbssys3/persona.py and the *)
(* weight loop of generate_auto_post in src/persona.py.  A persona is seen *)
(* by what the weights read: its activity level in thousandths, the        *)
(* seconds since its last post (NoTime without one), the hour weight of    *)
(* its generation in tenths, its topic relevance in thousandths and what   *)
(* should_post_now answered.                                               *)
(***************************************************************************)

Member(activity_level, time_diff, hour_weight, topic_relevance, should_post) ==
    [activity_level |-> activity_level, time_diff |-> time_diff,
     hour_weight |-> hour_weight, topic_relevance |-> topic_relevance,
     should_post |-> should_post]

\* one persona of activity 0.9 that posted an hour ago, and ten of activity
\* 0.1 that posted this instant, alike in everything else
ScenarioPool ==
    [i \in 1..11 |-> IF i = 1 THEN Member(900, 3600, 10, 0, FALSE)
                     ELSE Member(100, 0, 10, 0, FALSE)]

\* personas a pool is made of: activity from the floor 0.1 of
\* update_all_personas up to 0.9, hour weights from 0.2 to 1.5
Members ==
    { Member(a, t, h, r, sp) :
        a \in {100, 900}, t \in {NoTime, 0, 3600},
        h \in {2, 15}, r \in {0, 1000}, sp \in BOOLEAN }

\* size of the pools drawn, next to the pool of eleven
PoolSize == 2

Pools == {ScenarioPool} \cup [1..PoolSize -> Members]

\* select_posting_persona: weights = [p.activity_level ...]
Bbssys3Weight(p) == p.activity_level

\* The weight loop of the earlier generate_auto_post, in units of
\* 1/(3600 * 10 * 1000): 1.0, times min(2.0, time_diff / 3600) for a persona
\* that has posted, times hour_weight, times (0.5 + topic_relevance), times
\* 2 when should_post_now.
LegacyWeight(p) ==
    (IF p.time_diff /= NoTime THEN Min(7200, p.time_diff) ELSE 3600)
        * p.hour_weight * (500 + p.topic_relevance)
        * (IF p.should_post THEN 2 ELSE 1)

SelectIdle ==
    /\ sel_impl = "none"
    /\ active_personas = << >>
    /\ persona_weights = << >>
    /\ sel_pc = "off"
    /\ selected_persona = 0

SelectInit ==
    /\ sel_impl \in {"bbssys3", "legacy"}
    /\ active_personas \in Pools
    /\ persona_weights = << >>
    /\ sel_pc = "idle"
    /\ selected_persona = 0

\* the weights are computed
ComputeWeights ==
    /\ sel_pc = "idle"
    /\ persona_weights' =
          [i \in 1..Len(active_personas) |->
              IF sel_impl = "bbssys3" THEN Bbssys3Weight(active_personas[i])
              ELSE LegacyWeight(active_personas[i])]
    /\ sel_pc' = "weighted"
    /\ UNCHANGED <<sel_impl, active_personas, selected_persona>>
    /\ UNCHANGED notSelect

RECURSIVE SumTo(_, _)
SumTo(weights, i) == IF i = 0 THEN 0 ELSE weights[i] + SumTo(weights, i - 1)

\* The draw at the point x of the total weight.  random.choices takes the
\* first persona whose cumulative weight is above x and raises when the
\* total is 0, so that select_posting_persona returns None.  The earlier
\* loop takes the first persona whose cumulative weight is at least x.
DrawnAt(weights, x) ==
    LET n == Len(weights)
        hit(i) == IF sel_impl = "bbssys3" THEN SumTo(weights, i) > x
                  ELSE SumTo(weights, i) >= x
    IN  IF sel_impl = "bbssys3" /\ SumTo(weights, n) = 0 THEN 0
        ELSE IF \E i \in 1..n : hit(i)
        THEN CHOOSE i \in 1..n : hit(i) /\ \A j \in 1..(i - 1) : ~hit(j)
        ELSE n

\* the persona is drawn: the random number falls at the start, in a
\* quarter, the middle, three quarters or at the end of the total weight
DrawPersona(quarter) ==
    /\ sel_pc = "weighted"
    /\ LET total == SumTo(persona_weights, Len(persona_weights))
           x == IF quarter = 4 /\ sel_impl = "bbssys3" THEN Max(0, total - 1)
                ELSE (total \div 4) * quarter
       IN  selected_persona' = DrawnAt(persona_weights, x)
    /\ sel_pc' = "drawn"
    /\ UNCHANGED <<sel_impl, active_personas, persona_weights>>
    /\ UNCHANGED notSelect

(***************************************************************************)
(* The threads of bbssys3/main.py that post on behalf of personas: the     *)
(* ambient loop auto_post_worker, the PostScheduler worker, and the        *)
(* delayed_response and delayed_follow_up threads trigger_user_responses   *)
(* starts.  A thread is "generating" from its call of                      *)
(* ai_manager.generate_response to the return of that call.  All personas  *)
(* are active.                                                             *)
(***************************************************************************)

\* number of user posts the model follows
MaxTriggers == 2

\* schedule_new_posts: at most 2 scheduled posts for a thread
ScheduledPerThread == 2

\* the personas in the order of PersonaManager.personas
PersonaOrder == <<"p1", "p2">>

SchedIdle ==
    /\ ambient_pc = "off"
    /\ ambient_persona = "none"
    /\ response_threads = << >>
    /\ follow_ups = << >>
    /\ triggers = 0
    /\ scheduled_posts = << >>

\* the application has started its workers; no user has posted yet
SchedInit ==
    /\ ambient_pc = "idle"
    /\ ambient_persona = "none"
    /\ response_threads = [t \in 1..MaxTriggers |-> [n \in PersonaNames |-> "none"]]
    /\ follow_ups = [t \in 1..MaxTriggers |->
                        [pc |-> "none", immediate |-> {}, queue |-> << >>]]
    /\ triggers = 0
    /\ scheduled_posts = << >>

\* auto_post_worker calls generate_auto_post: select_posting_persona draws
\* n and _generate_post_content calls generate_response
AmbientBegin(n) ==
    /\ ambient_pc = "idle"
    /\ ambient_persona' = n
    /\ ambient_pc' = "generating"
    /\ UNCHANGED <<response_threads, follow_ups, triggers, scheduled_posts>>
    /\ UNCHANGED notSched

\* generate_response returns and generate_auto_post runs to its end
AmbientEnd ==
    /\ ambient_pc = "generating"
    /\ ambient_pc' = "idle"
    /\ ambient_persona' = "none"
    /\ UNCHANGED <<response_threads, follow_ups, triggers, scheduled_posts>>
    /\ UNCHANGED notSched

\* PostScheduler._schedule_single_post: the persona is drawn and the post is
\* written by _generate_simple_post, without a call of generate_response
schedule_single_post(n) ==
    /\ ambient_pc /= "off"
    /\ Len(scheduled_posts) < ScheduledPerThread
    /\ scheduled_posts' = Append(scheduled_posts, n)
    /\ UNCHANGED <<ambient_pc, ambient_persona, response_threads, follow_ups, triggers>>
    /\ UNCHANGED notSched

\* PostScheduler.execute_scheduled_posts: the posts that are due, here the
\* first k, are removed and posted
execute_scheduled_posts(k) ==
    /\ ambient_pc /= "off"
    /\ k \in 1..Len(scheduled_posts)
    /\ scheduled_posts' = SubSeq(scheduled_posts, k + 1, Len(scheduled_posts))
    /\ UNCHANGED <<ambient_pc, ambient_persona, response_threads, follow_ups, triggers>>
    /\ UNCHANGED notSched

\* trigger_user_responses: a delayed_response thread is started for each
\* immediate responder and one delayed_follow_up thread
trigger_user_responses(immediate_responders) ==
    /\ ambient_pc /= "off"
    /\ triggers < MaxTriggers
    /\ triggers' = triggers + 1
    /\ response_threads' = [response_threads EXCEPT ![triggers + 1] =
          [n \in PersonaNames |-> IF n \in immediate_responders THEN "sleeping" ELSE "none"]]
    /\ follow_ups' = [follow_ups EXCEPT ![triggers + 1] =
          [pc |-> "sleeping", immediate |-> immediate_responders, queue |-> << >>]]
    /\ UNCHANGED <<ambient_pc, ambient_persona, scheduled_posts>>
    /\ UNCHANGED notSched

\* delayed_response: the delay is over, _generate_user_response calls
\* generate_response
ResponseBegin(t, n) ==
    /\ ambient_pc /= "off"
    /\ response_threads[t][n] = "sleeping"
    /\ response_threads' = [response_threads EXCEPT ![t][n] = "generating"]
    /\ UNCHANGED <<ambient_pc, ambient_persona, follow_ups, triggers, scheduled_posts>>
    /\ UNCHANGED notSched

\* delayed_response: generate_response returns, the response is posted
ResponseEnd(t, n) ==
    /\ ambient_pc /= "off"
    /\ response_threads[t][n] = "generating"
    /\ response_threads' = [response_threads EXCEPT ![t][n] = "done"]
    /\ UNCHANGED <<ambient_pc, ambient_persona, follow_ups, triggers, scheduled_posts>>
    /\ UNCHANGED notSched

\* delayed_follow_up wakes: _select_follow_up_responders keeps up to two
\* personas that were no immediate responders, in the order of the personas
FollowUpSelect(t, admitted) ==
    /\ ambient_pc /= "off"
    /\ follow_ups[t].pc = "sleeping"
    /\ admitted \subseteq (PersonaNames \ follow_ups[t].immediate)
    /\ LET Admitted(n) == n \in admitted
           candidates == SelectSeq(PersonaOrder, Admitted)
           queue == SubSeq(candidates, 1, Min(2, Len(candidates)))
       IN  follow_ups' = [follow_ups EXCEPT
              ![t].queue = queue,
              ![t].pc = IF queue = << >> THEN "done" ELSE "selected"]
    /\ UNCHANGED <<ambient_pc, ambient_persona, response_threads, triggers, scheduled_posts>>
    /\ UNCHANGED notSched

\* delayed_follow_up: _generate_follow_up_response calls generate_response
\* for the persona at the head of the queue
FollowUpBegin(t) ==
    /\ ambient_pc /= "off"
    /\ follow_ups[t].pc = "selected"
    /\ follow_ups' = [follow_ups EXCEPT ![t].pc = "generating"]
    /\ UNCHANGED <<ambient_pc, ambient_persona, response_threads, triggers, scheduled_posts>>
    /\ UNCHANGED notSched

\* delayed_follow_up: generate_response returns, the response is posted and
\* the loop goes to the next persona
FollowUpEnd(t) ==
    /\ ambient_pc /= "off"
    /\ follow_ups[t].pc = "generating"
    /\ follow_ups' = [follow_ups EXCEPT
          ![t].queue = Tail(@),
          ![t].pc = IF Len(follow_ups[t].queue) = 1 THEN "done" ELSE "selected"]
    /\ UNCHANGED <<ambient_pc, ambient_persona, response_threads, triggers, scheduled_posts>>
    /\ UNCHANGED notSched

\* number of generate_response calls in flight on behalf of persona n
InFlight(n) ==
    (IF ambient_pc = "generating" /\ ambient_persona = n THEN 1 ELSE 0)
    + Cardinality({t \in 1..MaxTriggers : response_threads[t][n] = "generating"})
    + Cardinality({t \in 1..MaxTriggers :
                      follow_ups[t].pc = "generating" /\ Head(follow_ups[t].queue) = n})

(***************************************************************************)
(* One posting cycle of auto_post_worker, from the sorted candidate list   *)
(* to the sleep that ends the cycle: for each of the first max_posts       *)
(* candidates generate_auto_post draws a persona, reads the thread, calls   *)
(* AIManager.generate_response and commits the post.                       *)
(***************************************************************************)

\* random.choice([1, 1, 2, 2, 3]) at most, and at most the candidates there are
MaxPostsPerCycle == 3

\* number of G4F combinations the cycle is followed with
MaxCycleCombinations == 2

CycleIdle ==
    /\ cycle_pc = "off"
    /\ max_posts = 0
    /\ post_i = 0
    /\ actual_posts = 0

\* the worker has sorted its candidates and chosen max_posts
CycleInit ==
    /\ cycle_pc = "next"
    /\ max_posts \in 1..MaxPostsPerCycle
    /\ post_i = 1
    /\ actual_posts = 0

\* generate_auto_post up to the call of _generate_post_content, for the
\* candidate at post_i: without a persona or without the thread's row it
\* returns False.
generate_auto_post_begin(n, thread_found) ==
    /\ cycle_pc = "next"
    /\ post_i <= max_posts
    /\ auto_pc = "idle"
    /\ gen_pc = "idle"
    /\ SelectableBbssys3(n)
    /\ cycle_pc' = "calling"
    /\ auto_persona' = n
    /\ IF thread_found
       THEN auto_pc' = "content" /\ UNCHANGED auto_result
       ELSE auto_pc' = "done" /\ auto_result' = FALSE
    /\ UNCHANGED <<personas, db_personas, now, post_content, post_id, persona_ops>>
    /\ UNCHANGED <<max_posts, post_i, actual_posts>>
    /\ UNCHANGED genVars
    /\ UNCHANGED notCycle

\* _generate_post_content returning the response whether there is one or not
GeneratedContent_unchecked(response, content) == content

\* _generate_post_content: the post-processed response, or None ("empty")
\* without a response
GeneratedContent(response, content) ==
    IF response /= NoneValue /\ response /= <<>> THEN content ELSE "empty"

\* generate_response has returned to _generate_post_content, and that to
\* generate_auto_post, which returns False without content.  The keywords
\* update_activity will find in the post-processed text are drawn here.
ContentReturn(content) ==
    /\ cycle_pc = "calling"
    /\ auto_pc = "content"
    /\ gen_pc = "done"
    /\ gen_pc' = "idle"
    /\ post_content' = GeneratedContent(gen_result, content)
    /\ IF post_content' /= "empty"
       THEN auto_pc' = "execute" /\ UNCHANGED auto_result
       ELSE auto_pc' = "done" /\ auto_result' = FALSE
    /\ UNCHANGED <<personas, db_personas, now, auto_persona, post_id, persona_ops>>
    /\ UNCHANGED <<g4f_available, available_combinations, gemini_available,
                   request_count, success_count, failure_count, stats, gen_idx,
                   gemini_attempt, gen_result, attempts, calls>>
    /\ UNCHANGED cycleVars
    /\ UNCHANGED notCycle

\* generate_auto_post has returned to the worker: a success is counted, and
\* the for loop takes the next candidate or ends
AfterAutoPost ==
    /\ cycle_pc = "calling"
    /\ auto_pc = "idle"
    /\ actual_posts' = IF auto_result THEN actual_posts + 1 ELSE actual_posts
    /\ post_i' = post_i + 1
    /\ cycle_pc' = IF post_i < max_posts THEN "next" ELSE "sleep"
    /\ UNCHANGED max_posts
    /\ UNCHANGED <<genVars, personaVars>>
    /\ UNCHANGED notCycle

(***************************************************************************)
(* AIManager._update_stats called from several threads.  Every thread that *)
(* calls generate_response (auto_post_worker, the delayed_response         *)
(* threads, the Tk main thread) ends an attempt in _update_stats; the      *)
(* method holds no lock, and its SELECT and its INSERT or UPDATE each run  *)
(* in a connection and a transaction of their own.  The table has no       *)
(* unique constraint on (provider_name, model_name).                       *)
(***************************************************************************)

\* the threads followed
StatThreads == {"auto_post_worker", "delayed_response"}

\* the (provider_name, model_name) pairs generate_response passes
StatBindings ==
    { <<"G4F-Chatai", "gpt-4">>, <<"Gemini CLI", "gemini-pro">> }

\* number of _update_stats calls followed per thread
MaxStatCalls == 2

StatIdle == stat_calls = << >>

\* AIManager.__init__ has run _init_default_stats; no thread is in the method
StatInit ==
    /\ stat_calls = [w \in StatThreads |->
                        [pc |-> "idle", binding |-> <<"", "">>, success |-> FALSE,
                         existing |-> <<>>, made |-> 0]]
    /\ stats = InitialStats
    /\ g4f_available = FALSE
    /\ available_combinations = <<>>
    /\ gemini_available = FALSE
    /\ request_count = 0
    /\ success_count = 0
    /\ failure_count = 0
    /\ gen_pc = "idle"
    /\ gen_idx = 0
    /\ gemini_attempt = 0
    /\ gen_result = NoneValue
    /\ attempts = <<>>
    /\ calls = 0

\* _update_stats up to its SELECT: existing holds the counts of the first
\* matching row, or nothing
update_stats_select(w, binding, success) ==
    /\ stat_calls[w].pc = "idle"
    /\ stat_calls[w].made < MaxStatCalls
    /\ LET hits == {i \in 1..Len(stats) : /\ stats[i].provider_name = binding[1]
                                          /\ stats[i].model_name = binding[2]}
           first == stats[CHOOSE i \in hits : \A j \in hits : i <= j]
       IN  stat_calls' = [stat_calls EXCEPT ![w] =
              [pc |-> "selected", binding |-> binding, success |-> success,
               existing |-> IF hits = {} THEN <<>>
                            ELSE <<first.success_count, first.failure_count,
                                   first.total_requests>>,
               made |-> @.made + 1]]
    /\ UNCHANGED genVars
    /\ UNCHANGED notStat

\* the rest of _update_stats: with a row found, the UPDATE writes the counts
\* read, one of them incremented, to every row of the pair; without one, the
\* INSERT adds a row
StatsWritten(rows, c) ==
    IF c.existing /= <<>>
    THEN [i \in 1..Len(rows) |->
            IF rows[i].provider_name = c.binding[1] /\ rows[i].model_name = c.binding[2]
            THEN IF c.success
                 THEN [rows[i] EXCEPT !.success_count = c.existing[1] + 1,
                                      !.total_requests = c.existing[3] + 1]
                 ELSE [rows[i] EXCEPT !.failure_count = c.existing[2] + 1,
                                      !.total_requests = c.existing[3] + 1]
            ELSE rows[i]]
    ELSE Append(rows, StatRow(c.binding[1], c.binding[2],
                              IF c.success THEN 1 ELSE 0,
                              IF c.success THEN 0 ELSE 1, 1))

update_stats_write(w) ==
    /\ stat_calls[w].pc = "selected"
    /\ stats' = StatsWritten(stats, stat_calls[w])
    /\ stat_calls' = [stat_calls EXCEPT ![w].pc = "idle"]
    /\ UNCHANGED <<g4f_available, available_combinations, gemini_available,
                   request_count, success_count, failure_count, gen_pc, gen_idx,
                   gemini_attempt, gen_result, attempts, calls>>
    /\ UNCHANGED notStat

(***************************************************************************)
(* G4FManager of src/main.py: find_available_providers runs in a thread of *)
(* its own and replaces available_providers under the manager's lock;      *)
(* generate_response and get_best_provider read the list without the lock. *)
(* Response times are whole numbers.                                       *)
(***************************************************************************)

\* the first providers of provider_model_map, in its order
ProbedProviders == <<"Liaobots", "DDG">>

\* the response times a provider test can measure
ResponseTimes == {1, 2}

\* number of probes started after the one of init_g4f
MaxProbes == 1

\* G4FManager.max_retries
LegacyMaxRetries == 3

\* the lists a probe can collect: the working providers in map order, each
\* with the response time measured
RECURSIVE ProbeOutcomesFrom(_)
ProbeOutcomesFrom(i) ==
    IF i > Len(ProbedProviders) THEN {<<>>}
    ELSE LET rest == ProbeOutcomesFrom(i + 1)
         IN  rest \cup
             { <<[provider |-> ProbedProviders[i], response_time |-> t]>> \o r :
                 t \in ResponseTimes, r \in rest }

\* list.sort(key=lambda x: x['response_time']): ascending and stable
RECURSIVE SortByResponseTime(_)
SortByResponseTime(list) ==
    IF list = <<>> THEN <<>>
    ELSE LET least == CHOOSE i \in 1..Len(list) :
                        /\ \A j \in 1..Len(list) :
                              list[i].response_time <= list[j].response_time
                        /\ \A j \in 1..(i - 1) :
                              list[j].response_time > list[i].response_time
         IN  <<list[least]>> \o
             SortByResponseTime(SubSeq(list, 1, least - 1) \o
                                SubSeq(list, least + 1, Len(list)))

\* what get_best_provider returns without a provider
NoProvider == [provider |-> "None", response_time |-> 0]

ProbeIdle ==
    /\ available_providers = <<>>
    /\ probe_pc = "off"
    /\ working_providers = <<>>
    /\ reader_pc = "off"
    /\ reader_attempt = 0
    /\ seen_providers = <<>>
    /\ best_provider = NoProvider
    /\ probes = 0

\* init_g4f has run find_available_providers to its end
ProbeInit ==
    /\ \E outcome \in ProbeOutcomesFrom(1) :
          available_providers = SortByResponseTime(outcome)
    /\ probe_pc = "idle"
    /\ working_providers = <<>>
    /\ reader_pc = "idle"
    /\ reader_attempt = 0
    /\ seen_providers = <<>>
    /\ best_provider = NoProvider
    /\ probes = 0

\* find_available_providers up to the lock: the providers are tested
find_available_providers_test(outcome) ==
    /\ probe_pc = "idle"
    /\ probes < MaxProbes
    /\ probes' = probes + 1
    /\ working_providers' = outcome
    /\ probe_pc' = "tested"
    /\ UNCHANGED <<available_providers, reader_pc, reader_attempt, seen_providers,
                   best_provider>>
    /\ UNCHANGED notProbe

\* inside the lock: self.available_providers = working_providers
find_available_providers_assign ==
    /\ probe_pc = "tested"
    /\ available_providers' = working_providers
    /\ probe_pc' = IF working_providers /= <<>> THEN "assigned" ELSE "idle"
    /\ UNCHANGED <<working_providers, reader_pc, reader_attempt, seen_providers,
                   best_provider, probes>>
    /\ UNCHANGED notProbe

\* inside the lock: self.available_providers.sort(...).  CPython empties the
\* list object for the time of the sort, which calls the key function for
\* every entry, so another thread can find the list empty before it finds
\* it sorted.
find_available_providers_sort ==
    /\ \/ /\ probe_pc = "assigned"
          /\ \/ available_providers' = <<>> /\ probe_pc' = "sorting"
             \/ available_providers' = SortByResponseTime(available_providers)
                /\ probe_pc' = "idle"
       \/ /\ probe_pc = "sorting"
          /\ available_providers' = SortByResponseTime(working_providers)
          /\ probe_pc' = "idle"
    /\ UNCHANGED <<working_providers, reader_pc, reader_attempt, seen_providers,
                   best_provider, probes>>
    /\ UNCHANGED notProbe

\* generate_response up to its for loop: without providers it returns None
legacy_generate_response_check ==
    /\ reader_pc = "idle"
    /\ reader_pc' = IF available_providers = <<>> THEN "done" ELSE "loop"
    /\ reader_attempt' = 0
    /\ seen_providers' = <<>>
    /\ best_provider' = NoProvider
    /\ UNCHANGED <<available_providers, probe_pc, working_providers, probes>>
    /\ UNCHANGED notProbe

\* get_best_provider, called at the head of the for loop: it tests the list,
\* then takes its entry 0, which raises IndexError on an empty list; the
\* call is outside the try of generate_response.
get_best_provider ==
    /\ \/ /\ reader_pc = "loop"
          /\ reader_attempt < LegacyMaxRetries
          /\ reader_pc' = IF available_providers = <<>> THEN "done" ELSE "index"
          /\ UNCHANGED <<seen_providers, best_provider>>
       \/ /\ reader_pc = "loop"
          /\ reader_attempt >= LegacyMaxRetries
          /\ reader_pc' = "done"
          /\ UNCHANGED <<seen_providers, best_provider>>
       \/ /\ reader_pc = "index"
          /\ seen_providers' = available_providers
          /\ IF available_providers = <<>>
             THEN reader_pc' = "raised" /\ best_provider' = NoProvider
             ELSE reader_pc' = "calling" /\ best_provider' = available_providers[1]
    /\ UNCHANGED <<available_providers, probe_pc, working_providers,
                   reader_attempt, probes>>
    /\ UNCHANGED notProbe

\* the provider answers: a cleaned response is returned; an invalid one is
\* recorded and the loop goes on; on an exception the provider is taken off
\* the list inside the lock, which the probe holds from its assignment to
\* the end of its sort.
legacy_attempt(outcome) ==
    /\ reader_pc = "calling"
    /\ outcome = "raise" => probe_pc \notin {"assigned", "sorting"}
    /\ available_providers' =
          IF outcome = "raise"
          THEN SelectSeq(available_providers,
                         LAMBDA p : p.provider /= best_provider.provider)
          ELSE available_providers
    /\ reader_pc' = IF outcome = "ok" THEN "done" ELSE "loop"
    /\ reader_attempt' = IF outcome = "ok" THEN reader_attempt ELSE reader_attempt + 1
    /\ UNCHANGED <<probe_pc, working_providers, seen_providers, best_provider, probes>>
    /\ UNCHANGED notProbe

(***************************************************************************)
(* The two posting loops of BBSApplication: auto_post_worker of            *)
(* start_traditional_auto_posting and scheduler_worker of                  *)
(* PostScheduler.start_high_frequency_posting, both daemon threads started *)
(* by start_enhanced_auto_posting, with set_ai_activity and                *)
(* on_window_close of the Tk main thread.  Of the two definitions of       *)
(* set_ai_activity in the class body the later one is in force.  A call of *)
(* generate_auto_post is one step here; it can succeed only with a G4F     *)
(* combination or the Gemini CLI to generate with.                         *)
(***************************************************************************)

\* thread_id -> is_locked
ThreadLocked == [t \in {1, 2} |-> t = 2]

\* seconds between two readings of the clock that the model tells apart
TickSeconds == 30

\* number of such readings followed
MaxTicks == 4

\* number of posts the scheduler is followed to schedule
MaxIntents == 2

\* number of posts the ambient loop is followed to commit
MaxAmbientPosts == 1

\* random.uniform(5, 120), at its ends
ExecuteDelays == {5, 120}

Workers == {"auto_post_worker", "scheduler_worker"}

LoopIdle ==
    /\ ai_activity_enabled = FALSE
    /\ is_running = FALSE
    /\ window_closed = FALSE
    /\ sched_pc = "off"
    /\ wall_clock = 0
    /\ last_ai_post_time = << >>
    /\ ai_posts = << >>
    /\ cand = <<>>
    /\ scheduled_intents = <<>>
    /\ next_intent = 0
    /\ commit_attempts = << >>
    /\ began_while_disabled = << >>

\* BBSApplication.__init__ has run start_enhanced_auto_posting: both workers
\* are at the head of their loops
LoopInit ==
    /\ ai_activity_enabled = TRUE
    /\ is_running = TRUE
    /\ window_closed = FALSE
    /\ sched_pc = "head"
    /\ wall_clock = 0
    /\ last_ai_post_time = [t \in DOMAIN ThreadLocked |-> NoTime]
    /\ ai_posts = [t \in DOMAIN ThreadLocked |-> 0]
    /\ cand = <<>>
    /\ scheduled_intents = <<>>
    /\ next_intent = 1
    /\ commit_attempts = [k \in 1..MaxIntents |-> 0]
    /\ began_while_disabled = [w \in Workers |-> FALSE]
    /\ cycle_pc = "top"
    /\ max_posts = 0
    /\ post_i = 0
    /\ actual_posts = 0
    /\ available_combinations \in {<<>>, <<VerifiedCombinations[1]>>}
    /\ g4f_available = (available_combinations /= <<>>)
    /\ gemini_available \in BOOLEAN
    /\ request_count = 0
    /\ success_count = 0
    /\ failure_count = 0
    /\ stats = InitialStats
    /\ gen_pc = "idle"
    /\ gen_idx = 0
    /\ gemini_attempt = 0
    /\ gen_result = NoneValue
    /\ attempts = <<>>
    /\ calls = 0

\* there is something generate_response can generate with
HasBinding ==
    (g4f_available /\ available_combinations /= <<>>) \/ gemini_available

\* ThreadManager.get_seconds_since_last_ai_post
SecondsSinceLastAiPost(t) ==
    IF last_ai_post_time[t] = NoTime THEN NeverPosted
    ELSE wall_clock - last_ai_post_time[t]

\* the threads of a set in thread_id order
RECURSIVE ThreadList(_)
ThreadList(S) ==
    IF S = {} THEN <<>>
    ELSE LET t == CHOOSE x \in S : \A y \in S : x <= y
         IN  <<t>> \o ThreadList(S \ {t})

\* time passes
LoopTick ==
    /\ wall_clock < MaxTicks * TickSeconds
    /\ sched_pc /= "exited"
    /\ wall_clock' = wall_clock + TickSeconds
    /\ UNCHANGED <<ai_activity_enabled, is_running, window_closed, sched_pc,
                   last_ai_post_time, ai_posts, cand, scheduled_intents, next_intent,
                   commit_attempts, began_while_disabled>>
    /\ UNCHANGED cycleVars
    /\ UNCHANGED notLoop

\* set_ai_activity, from the buttons "AI活動 ON" and "AI活動 OFF": the
\* flag is assigned, and nothing else that the loops read
set_ai_activity(enabled) ==
    /\ ~window_closed
    /\ enabled /= ai_activity_enabled
    /\ ai_activity_enabled' = enabled
    /\ began_while_disabled' = [w \in Workers |-> FALSE]
    /\ UNCHANGED <<is_running, window_closed, sched_pc, wall_clock,
                   last_ai_post_time, ai_posts, cand, scheduled_intents, next_intent,
                   commit_attempts>>
    /\ UNCHANGED cycleVars
    /\ UNCHANGED notLoop

\* on_window_close: AI activity off, PostScheduler.stop, then the saves and
\* root.destroy
on_window_close ==
    /\ ~window_closed
    /\ window_closed' = TRUE
    /\ ai_activity_enabled' = FALSE
    /\ is_running' = FALSE
    /\ began_while_disabled' = [w \in Workers |-> FALSE]
    /\ UNCHANGED <<sched_pc, wall_clock, last_ai_post_time, ai_posts, cand,
                   scheduled_intents, next_intent, commit_attempts>>
    /\ UNCHANGED cycleVars
    /\ UNCHANGED notLoop

\* mainloop has returned and the interpreter exits: the daemon threads end
\* wherever they are
process_exit ==
    /\ window_closed
    /\ sched_pc /= "exited" \/ cycle_pc /= "exited"
    /\ sched_pc' = "exited"
    /\ cycle_pc' = "exited"
    /\ UNCHANGED <<ai_activity_enabled, is_running, window_closed, wall_clock,
                   last_ai_post_time, ai_posts, cand, scheduled_intents, next_intent,
                   commit_attempts, began_while_disabled>>
    /\ UNCHANGED <<max_posts, post_i, actual_posts>>
    /\ UNCHANGED notLoop

\* scheduler_worker at "while self.is_running": it goes to sleep for 5 to
\* 15 seconds, or leaves the loop
scheduler_worker_head ==
    /\ sched_pc = "head"
    /\ sched_pc' = IF is_running THEN "sleep" ELSE "exited"
    /\ began_while_disabled' =
          [began_while_disabled EXCEPT !["scheduler_worker"] = ~ai_activity_enabled]
    /\ UNCHANGED <<ai_activity_enabled, is_running, window_closed, wall_clock,
                   last_ai_post_time, ai_posts, cand, scheduled_intents, next_intent,
                   commit_attempts>>
    /\ UNCHANGED cycleVars
    /\ UNCHANGED notLoop

\* its time.sleep returns
scheduler_worker_wake ==
    /\ sched_pc = "sleep"
    /\ sched_pc' = "execute"
    /\ UNCHANGED <<ai_activity_enabled, is_running, window_closed, wall_clock,
                   last_ai_post_time, ai_posts, cand, scheduled_intents, next_intent,
                   commit_attempts, began_while_disabled>>
    /\ UNCHANGED cycleVars
    /\ UNCHANGED notLoop

\* every scheduled post, whatever its execute_time
DuePosts_all == 1..Len(scheduled_intents)

\* the scheduled posts execute_scheduled_posts takes off the list
DuePosts == {k \in 1..Len(scheduled_intents) :
                scheduled_intents[k].execute_time <= wall_clock}

\* PostScheduler.execute_scheduled_posts: inside the lock, the posts whose
\* execute_time has come are taken off the list and add_post is called for
\* each, which adds the row and stamps the thread unless it fails
scheduler_execute(ok) ==
    /\ sched_pc = "execute"
    /\ sched_pc' = "schedule"
    /\ LET due == DuePosts
           ids == {scheduled_intents[k].id : k \in due}
           hit == {scheduled_intents[k].thread_id : k \in due}
       IN  /\ scheduled_intents' =
                 SelectSeq(scheduled_intents, LAMBDA p : p.id \notin ids)
           /\ commit_attempts' =
                 [k \in DOMAIN commit_attempts |->
                    IF k \in ids THEN commit_attempts[k] + 1 ELSE commit_attempts[k]]
           /\ ai_posts' =
                 [t \in DOMAIN ai_posts |->
                    IF ok THEN ai_posts[t] +
                               Cardinality({k \in due : scheduled_intents[k].thread_id = t})
                    ELSE ai_posts[t]]
           /\ last_ai_post_time' =
                 [t \in DOMAIN last_ai_post_time |->
                    IF ok /\ t \in hit THEN wall_clock ELSE last_ai_post_time[t]]
    /\ UNCHANGED <<ai_activity_enabled, is_running, window_closed, wall_clock, cand,
                   next_intent, began_while_disabled>>
    /\ UNCHANGED cycleVars
    /\ UNCHANGED notLoop

\* the threads _get_active_threads returns
ActiveThreads == {t \in DOMAIN ThreadLocked : ~ThreadLocked[t]}

\* PostScheduler.schedule_new_posts: for every thread that is not locked and
\* has fewer than 2 posts scheduled, _schedule_single_post draws a persona,
\* builds a template text with _generate_simple_post and appends the post
\* with an execute_time 5 to 120 seconds ahead
scheduler_schedule(persona_found, delay) ==
    /\ sched_pc = "schedule"
    /\ sched_pc' = "head"
    /\ LET open == {t \in ActiveThreads :
                      Cardinality({k \in 1..Len(scheduled_intents) :
                                     scheduled_intents[k].thread_id = t})
                        < ScheduledPerThread}
           new == IF persona_found /\ next_intent <= MaxIntents
                  THEN ThreadList(open) ELSE <<>>
       IN  /\ Len(new) <= 1
           /\ scheduled_intents' = scheduled_intents \o
                 [k \in 1..Len(new) |->
                    [id |-> next_intent, thread_id |-> new[k],
                     execute_time |-> wall_clock + delay]]
           /\ next_intent' = next_intent + Len(new)
    /\ UNCHANGED <<ai_activity_enabled, is_running, window_closed, wall_clock,
                   last_ai_post_time, ai_posts, cand, commit_attempts,
                   began_while_disabled>>
    /\ UNCHANGED cycleVars
    /\ UNCHANGED notLoop

\* auto_post_worker at the head of "while True": with AI activity off it
\* sleeps 30 seconds; otherwise it gathers the threads that are not locked,
\* rested for auto_post_interval and admitted by the draw, and sleeps when
\* there are none
ambient_worker_head(admitted) ==
    /\ cycle_pc = "top"
    /\ began_while_disabled' =
          [began_while_disabled EXCEPT !["auto_post_worker"] = ~ai_activity_enabled]
    /\ LET gathered == {t \in admitted :
                          /\ ~ThreadLocked[t]
                          /\ SecondsSinceLastAiPost(t) >= auto_post_interval}
       IN  IF ai_activity_enabled /\ gathered /= {}
           THEN /\ cand' = ThreadList(gathered)
                /\ max_posts' = Min(Cardinality(gathered), MaxPostsPerCycle)
                /\ post_i' = 1
                /\ actual_posts' = 0
                /\ cycle_pc' = "next"
           ELSE /\ cycle_pc' = "sleep"
                /\ UNCHANGED <<cand, max_posts, post_i, actual_posts>>
    /\ UNCHANGED <<ai_activity_enabled, is_running, window_closed, sched_pc,
                   wall_clock, last_ai_post_time, ai_posts, scheduled_intents,
                   next_intent, commit_attempts>>
    /\ UNCHANGED notLoop

\* one pass of its for loop: generate_auto_post for the candidate; after the
\* last candidate the worker sleeps until the next check
ambient_post(success) ==
    /\ cycle_pc = "next"
    /\ success => HasBinding /\ ai_posts[cand[post_i]] < MaxAmbientPosts
    /\ IF success
       THEN /\ ai_posts' = [ai_posts EXCEPT ![cand[post_i]] = @ + 1]
            /\ last_ai_post_time' = [last_ai_post_time EXCEPT ![cand[post_i]] = wall_clock]
            /\ actual_posts' = actual_posts + 1
       ELSE UNCHANGED <<ai_posts, last_ai_post_time, actual_posts>>
    /\ post_i' = post_i + 1
    /\ cycle_pc' = IF post_i < max_posts THEN "next" ELSE "sleep"
    /\ UNCHANGED <<ai_activity_enabled, is_running, window_closed, sched_pc,
                   wall_clock, cand, scheduled_intents, next_intent, commit_attempts,
                   began_while_disabled>>
    /\ UNCHANGED max_posts
    /\ UNCHANGED notLoop

\* its time.sleep returns
ambient_worker_wake ==
    /\ cycle_pc = "sleep"
    /\ cycle_pc' = "top"
    /\ UNCHANGED <<max_posts, post_i, actual_posts>>
    /\ UNCHANGED loopVars
    /\ UNCHANGED notLoop

\* what the except clauses of the two loops leave alone
notLoopLog ==
    <<cleanVars, genVars, probVars, personaVars, legacyVars, selectVars, schedVars,
      statVars, probeVars, batchVars,
      commitVars,
      fanVars>>

\* number of exceptions per worker that are followed
MaxErrors == 1

LogIdle == errors_logged = << >>

LogInit == errors_logged = [w \in Workers |-> 0]

\* the thread of auto_post_worker ends with the exception
ambient_raise_uncaught ==
    /\ cycle_pc \in {"top", "next"}
    /\ errors_logged["auto_post_worker"] < MaxErrors
    /\ errors_logged' = [errors_logged EXCEPT !["auto_post_worker"] = @ + 1]
    /\ cycle_pc' = "exited"
    /\ UNCHANGED <<max_posts, post_i, actual_posts>>
    /\ UNCHANGED loopVars
    /\ UNCHANGED notLoopLog

\* a statement of auto_post_worker's try block raises while it gathers the
\* candidates or in its for loop: "except Exception" logs the error and
\* sleeps 60 seconds, and the while loop goes on
ambient_raise ==
    /\ cycle_pc \in {"top", "next"}
    /\ errors_logged["auto_post_worker"] < MaxErrors
    /\ errors_logged' = [errors_logged EXCEPT !["auto_post_worker"] = @ + 1]
    /\ cycle_pc' = "sleep"
    /\ UNCHANGED <<max_posts, post_i, actual_posts>>
    /\ UNCHANGED loopVars
    /\ UNCHANGED notLoopLog

\* execute_scheduled_posts or schedule_new_posts raises in scheduler_worker:
\* "except Exception" logs the error and sleeps 30 seconds
scheduler_raise ==
    /\ sched_pc \in {"execute", "schedule"}
    /\ errors_logged["scheduler_worker"] < MaxErrors
    /\ errors_logged' = [errors_logged EXCEPT !["scheduler_worker"] = @ + 1]
    /\ sched_pc' = "error_sleep"
    /\ UNCHANGED <<ai_activity_enabled, is_running, window_closed, wall_clock,
                   last_ai_post_time, ai_posts, cand, scheduled_intents, next_intent,
                   commit_attempts, began_while_disabled>>
    /\ UNCHANGED cycleVars
    /\ UNCHANGED notLoopLog

\* that sleep returns, to "while self.is_running"
scheduler_error_wake ==
    /\ sched_pc = "error_sleep"
    /\ sched_pc' = "head"
    /\ UNCHANGED <<ai_activity_enabled, is_running, window_closed, wall_clock,
                   last_ai_post_time, ai_posts, cand, scheduled_intents, next_intent,
                   commit_attempts, began_while_disabled>>
    /\ UNCHANGED cycleVars
    /\ UNCHANGED errors_logged
    /\ UNCHANGED notLoopLog

(***************************************************************************)
(* The batch of one ambient cycle: auto_post_worker of                     *)
(* src/bbssys3/main.py and human_like_post_worker of src/main.py sort the  *)
(* admitted candidate threads by a priority with a random part, call       *)
(* generate_auto_post for the first max_posts of them and sleep until the  *)
(* next cycle.  Which threads are admitted is drawn here; uniform draws    *)
(* are taken at the ends of their ranges.                                  *)
(***************************************************************************)

notBatch ==
    <<cleanVars, genVars, probVars, personaVars, legacyVars, selectVars, schedVars,
      cycleVars, statVars, probeVars, loopVars,
      logVars,
      commitVars,
      fanVars>>

\* thread ids of the board
BoardThreads == 1..4

\* number of cycles followed
MaxBatchCycles == 2

BatchImpls == {"bbssys3", "legacy"}

\* the values of random.choice([1, 1, 2, 2, 3]) and of
\* random.choice([1, 1, 1, 2, 2, 3])
PostChoices == {1, 2, 3}

\* the orders the sort can leave the admitted threads in
CandidateOrders ==
    UNION { {f \in [1..n -> BoardThreads] :
                \A a, b \in 1..n : a /= b => f[a] /= f[b]} : n \in 0..4 }

\* max_posts taken as the larger of the two
BatchSize_max(n, choice) == Max(n, choice)

\* min(len(candidate_threads), random.choice(...))
BatchSize(n, choice) == Min(n, choice)

\* time.sleep(random.uniform(30, 60)) without candidates
NoCandidateSleeps == {30, 60}

\* check_interval: uniform(60, 120) after a cycle with posts and
\* uniform(30, 60) after one without in src/bbssys3/main.py, uniform(5, 15)
\* in src/main.py
CheckIntervals(impl, posts) ==
    IF impl = "legacy" THEN {5, 15}
    ELSE IF posts > 0 THEN {60, 120} ELSE {30, 60}

BatchIdle ==
    /\ batch_impl = "none"
    /\ batch_pc = "off"
    /\ batch_candidates = <<>>
    /\ batch_max_posts = 0
    /\ batch_i = 0
    /\ batch_actual_posts = 0
    /\ batch_runs = <<>>
    /\ sleeps = <<>>
    /\ batch_cycles = 0

\* the worker thread has started and is at the head of its loop, with AI
\* activity on and threads on the board
BatchInit ==
    /\ batch_impl \in BatchImpls
    /\ batch_pc = "head"
    /\ batch_candidates = <<>>
    /\ batch_max_posts = 0
    /\ batch_i = 0
    /\ batch_actual_posts = 0
    /\ batch_runs = <<>>
    /\ sleeps = <<>>
    /\ batch_cycles = 1

\* the candidates are gathered and sorted and max_posts is chosen.  Without
\* candidates auto_post_worker sleeps 30 to 60 seconds and starts over;
\* human_like_post_worker goes on with a post_count of 0.
batch_head(order, choice, seconds) ==
    /\ batch_pc = "head"
    /\ batch_candidates' = order
    /\ batch_runs' = <<>>
    /\ batch_actual_posts' = 0
    /\ IF order = <<>> /\ batch_impl = "bbssys3"
       THEN /\ seconds \in NoCandidateSleeps
            /\ batch_max_posts' = 0
            /\ batch_i' = 0
            /\ sleeps' = Append(sleeps, [posts |-> 0, seconds |-> seconds])
            /\ batch_pc' = "sleep"
       ELSE /\ seconds = 0
            /\ batch_max_posts' = BatchSize(Len(order), choice)
            /\ batch_i' = 1
            /\ UNCHANGED sleeps
            /\ batch_pc' = IF batch_max_posts' > 0 THEN "posting" ELSE "cycle_end"
    /\ UNCHANGED <<batch_impl, batch_cycles>>
    /\ UNCHANGED notBatch

\* one pass of "for i in range(max_posts)": generate_auto_post is called for
\* candidate i when there is one
batch_post(success) ==
    /\ batch_pc = "posting"
    /\ IF batch_i <= Len(batch_candidates)
       THEN /\ batch_runs' = Append(batch_runs, batch_candidates[batch_i])
            /\ batch_actual_posts' =
                  IF success THEN batch_actual_posts + 1 ELSE batch_actual_posts
       ELSE /\ ~success
            /\ UNCHANGED <<batch_runs, batch_actual_posts>>
    /\ batch_i' = batch_i + 1
    /\ batch_pc' = IF batch_i < batch_max_posts THEN "posting" ELSE "cycle_end"
    /\ UNCHANGED <<batch_impl, batch_candidates, batch_max_posts, sleeps, batch_cycles>>
    /\ UNCHANGED notBatch

\* the wait until the next check is drawn and the worker sleeps
batch_sleep(seconds) ==
    /\ batch_pc = "cycle_end"
    /\ seconds \in CheckIntervals(batch_impl, batch_actual_posts)
    /\ sleeps' = Append(sleeps, [posts |-> batch_actual_posts, seconds |-> seconds])
    /\ batch_pc' = "sleep"
    /\ UNCHANGED <<batch_impl, batch_candidates, batch_max_posts, batch_i,
                   batch_actual_posts, batch_runs, batch_cycles>>
    /\ UNCHANGED notBatch

\* time.sleep returns and the loop starts over
batch_wake ==
    /\ batch_pc = "sleep"
    /\ batch_cycles < MaxBatchCycles
    /\ batch_cycles' = batch_cycles + 1
    /\ batch_pc' = "head"
    /\ batch_candidates' = <<>>
    /\ batch_max_posts' = 0
    /\ batch_i' = 0
    /\ batch_actual_posts' = 0
    /\ batch_runs' = <<>>
    /\ UNCHANGED <<batch_impl, sleeps>>
    /\ UNCHANGED notBatch

(***************************************************************************)
(* The commit of a post: ThreadManager.add_post, called by the scheduler   *)
(* worker, by the delayed_response and delayed_follow_up threads and for   *)
(* the user's own posts, and PersonaManager._execute_post, called by       *)
(* generate_auto_post in auto_post_worker.  Every execute_insert opens a   *)
(* connection of its own and commits its one statement; it returns -1 when *)
(* the statement fails and never raises.                                   *)
(***************************************************************************)

notCommit ==
    <<cleanVars, genVars, probVars, personaVars, legacyVars, selectVars, schedVars,
      cycleVars, statVars, probeVars, loopVars, batchVars, logVars,
      fanVars>>

\* the callers of add_post
AddPostCallers == {"scheduler_worker", "delayed_response", "user"}

\* the caller of _execute_post
ExecutePostCaller == "auto_post_worker"

Committers == AddPostCallers \cup {ExecutePostCaller}

CommitThreads == {1}

\* number of calls followed
MaxCommits == 3

\* seconds followed
MaxCommitSeconds == 2

NoCall ==
    [pc |-> "idle", thread_id |-> 0, persona_name |-> "none", is_user_post |-> FALSE,
     post_id |-> 0, result |-> FALSE, stamped |-> FALSE]

CommitIdle ==
    /\ post_rows = <<>>
    /\ thread_rows = << >>
    /\ db_clock = 0
    /\ commit_calls = << >>
    /\ activity = << >>
    /\ commits_begun = 0

\* a board with its threads and no posts, and personas that have not posted
CommitInit ==
    /\ post_rows = <<>>
    /\ thread_rows = [t \in CommitThreads |->
                        [post_count |-> 0, last_post_time |-> NoTime,
                         last_ai_post_time |-> NoTime]]
    /\ db_clock = 0
    /\ commit_calls = [c \in Committers |-> NoCall]
    /\ activity = [n \in PersonaNames |-> [post_count |-> 0, last_post_time |-> NoTime]]
    /\ commits_begun = 0

\* SELECT COUNT(*) FROM posts WHERE thread_id = ?
PostsOfThread(rows, t) ==
    Cardinality({i \in 1..Len(rows) : rows[i].thread_id = t})

\* the INSERT INTO posts of a call: the row is added and its id returned, or
\* execute_insert returns -1
InsertPost(c, t, name, is_user_post, inserted) ==
    /\ post_rows' =
          IF inserted
          THEN Append(post_rows, [thread_id |-> t, persona_name |-> name,
                                  is_user_post |-> is_user_post, created_at |-> db_clock])
          ELSE post_rows
    /\ commits_begun' = commits_begun + 1

\* add_post up to the return of its INSERT; the result is not looked at
add_post_insert(c, t, n, inserted) ==
    /\ c \in AddPostCallers
    /\ commit_calls[c].pc = "idle"
    /\ commits_begun < MaxCommits
    /\ LET is_user_post == (c = "user")
           name == IF is_user_post THEN "user" ELSE n
       IN  /\ InsertPost(c, t, name, is_user_post, inserted)
           /\ commit_calls' = [commit_calls EXCEPT ![c] =
                 [pc |-> "stats", thread_id |-> t, persona_name |-> name,
                  is_user_post |-> is_user_post,
                  post_id |-> IF inserted THEN Len(post_rows) + 1 ELSE -1,
                  result |-> FALSE, stamped |-> FALSE]]
    /\ UNCHANGED <<thread_rows, db_clock, activity>>
    /\ UNCHANGED notCommit

\* its UPDATE of post_count and last_post_time, and for a user post the
\* return of True
add_post_update_stats(c) ==
    /\ c \in AddPostCallers
    /\ commit_calls[c].pc = "stats"
    /\ LET call == commit_calls[c]
           t == call.thread_id
       IN  /\ thread_rows' = [thread_rows EXCEPT
                 ![t].post_count = PostsOfThread(post_rows, t),
                 ![t].last_post_time = db_clock]
           /\ commit_calls' = [commit_calls EXCEPT
                 ![c].stamped = TRUE,
                 ![c].result = call.is_user_post,
                 ![c].pc = IF call.is_user_post THEN "returned" ELSE "ai_time"]
    /\ UNCHANGED <<post_rows, db_clock, activity, commits_begun>>
    /\ UNCHANGED notCommit

\* its UPDATE of last_ai_post_time for a post that is not the user's, and
\* the return of True
add_post_update_ai_time(c) ==
    /\ c \in AddPostCallers
    /\ commit_calls[c].pc = "ai_time"
    /\ thread_rows' = [thread_rows EXCEPT
          ![commit_calls[c].thread_id].last_ai_post_time = db_clock]
    /\ commit_calls' = [commit_calls EXCEPT ![c].result = TRUE, ![c].pc = "returned"]
    /\ UNCHANGED <<post_rows, db_clock, activity, commits_begun>>
    /\ UNCHANGED notCommit

\* the caller of add_post goes on: execute_scheduled_posts and the response
\* threads log the success
add_post_caller_done(c) ==
    /\ c \in AddPostCallers
    /\ commit_calls[c].pc = "returned"
    /\ commit_calls' = [commit_calls EXCEPT ![c] = NoCall]
    /\ UNCHANGED <<post_rows, thread_rows, db_clock, activity, commits_begun>>
    /\ UNCHANGED notCommit

\* _execute_post up to the return of its INSERT: without a row id it
\* returns False
execute_post_insert(t, n, inserted) ==
    /\ commit_calls[ExecutePostCaller].pc = "idle"
    /\ commits_begun < MaxCommits
    /\ InsertPost(ExecutePostCaller, t, n, FALSE, inserted)
    /\ commit_calls' = [commit_calls EXCEPT ![ExecutePostCaller] =
          [pc |-> IF inserted THEN "stats" ELSE "returned",
           thread_id |-> t, persona_name |-> n, is_user_post |-> FALSE,
           post_id |-> IF inserted THEN Len(post_rows) + 1 ELSE -1,
           result |-> FALSE, stamped |-> FALSE]]
    /\ UNCHANGED <<thread_rows, db_clock, activity>>
    /\ UNCHANGED notCommit

\* its one UPDATE of post_count, last_post_time and last_ai_post_time, and
\* the return of True
execute_post_update ==
    /\ commit_calls[ExecutePostCaller].pc = "stats"
    /\ LET t == commit_calls[ExecutePostCaller].thread_id
       IN  thread_rows' = [thread_rows EXCEPT
              ![t].post_count = PostsOfThread(post_rows, t),
              ![t].last_post_time = db_clock,
              ![t].last_ai_post_time = db_clock]
    /\ commit_calls' = [commit_calls EXCEPT
          ![ExecutePostCaller].stamped = TRUE,
          ![ExecutePostCaller].result = TRUE,
          ![ExecutePostCaller].pc = "returned"]
    /\ UNCHANGED <<post_rows, db_clock, activity, commits_begun>>
    /\ UNCHANGED notCommit

\* generate_auto_post after _execute_post: update_activity when it was True
generate_auto_post_done ==
    /\ commit_calls[ExecutePostCaller].pc = "returned"
    /\ LET call == commit_calls[ExecutePostCaller]
       IN  activity' =
              IF call.result
              THEN [activity EXCEPT
                      ![call.persona_name].post_count = @ + 1,
                      ![call.persona_name].last_post_time = db_clock]
              ELSE activity
    /\ commit_calls' = [commit_calls EXCEPT ![ExecutePostCaller] = NoCall]
    /\ UNCHANGED <<post_rows, thread_rows, db_clock, commits_begun>>
    /\ UNCHANGED notCommit

\* a second passes
commit_tick ==
    /\ db_clock < MaxCommitSeconds
    /\ db_clock' = db_clock + 1
    /\ UNCHANGED <<post_rows, thread_rows, commit_calls, activity, commits_begun>>
    /\ UNCHANGED notCommit

(***************************************************************************)
(* UserResponseManager.trigger_user_responses: the immediate responders    *)
(* answer each in a delayed_response thread, and one delayed_follow_up     *)
(* thread sleeps, selects the follow-up responders and posts for them one  *)
(* after the other.                                                        *)
(***************************************************************************)

notFan ==
    <<cleanVars, genVars, probVars, personaVars, legacyVars, selectVars, schedVars,
      cycleVars, statVars, probeVars, loopVars, batchVars, logVars, commitVars>>

\* persona_manager.personas in the order of the dict: every Persona is
\* constructed with is_active = True and load_personas reads active rows only
ResponderPersonas ==
    << [name |-> "r1", is_active |-> TRUE, sociability |-> 500,
        generation |-> "1970s", personality_type |-> "NORMAL"],
       [name |-> "r2", is_active |-> TRUE, sociability |-> 900,
        generation |-> "2010s", personality_type |-> "TROLL"],
       [name |-> "r3", is_active |-> TRUE, sociability |-> 500,
        generation |-> "1990s", personality_type |-> "NORMAL"],
       [name |-> "r4", is_active |-> TRUE, sociability |-> 200,
        generation |-> "1950s", personality_type |-> "NORMAL"],
       [name |-> "r5", is_active |-> TRUE, sociability |-> 700,
        generation |-> "2010s", personality_type |-> "WEIRD"],
       [name |-> "r6", is_active |-> TRUE, sociability |-> 800,
        generation |-> "1970s", personality_type |-> "NORMAL"] >>

ResponderNames == {ResponderPersonas[i].name : i \in 1..Len(ResponderPersonas)}

\* total_probability of _select_immediate_responders, in thousandths
TotalProbability(persona) ==
    LET base_probability == 300
        social_bonus == (persona.sociability * 300) \div 1000
        generation_bonus == IF persona.generation = "2010s" THEN 200
                            ELSE IF persona.generation = "1950s" THEN 100
                            ELSE 150
        special_bonus == IF persona.personality_type = "TROLL" THEN 400
                         ELSE IF persona.personality_type = "WEIRD" THEN 200
                         ELSE 0
    IN  base_probability + social_bonus + generation_bonus + special_bonus

\* the draws of random.random() that can admit a persona: one below its
\* probability exists always, one at or above it only below 1.0
ImmediateAdmissions ==
    {a \in SUBSET (1..Len(ResponderPersonas)) :
        \A i \in 1..Len(ResponderPersonas) :
            TotalProbability(ResponderPersonas[i]) >= 1000 => i \in a}

\* random.randint(2, 4)
ResponderCounts == {2, 3, 4}

\* time.sleep(random.uniform(300, 900)) of delayed_follow_up
FollowUpSleeps == {300, 450}

\* time.sleep(random.uniform(5, 30)) before a follow-up post
FollowUpPostDelays == {5, 30}

\* steps of the clock
FanTicks == {150}

\* the clock stops here
MaxFanSeconds == 750

\* the call is made at one of these times
MaxTriggerSeconds == 150

\* candidates.sort(key=lambda x: x[1], reverse=True): by probability
\* descending, candidates of equal probability stay in the order of the dict
SortedCandidates(admitted) ==
    LET prob(i) == TotalProbability(ResponderPersonas[i])
        rank(i) == Cardinality({j \in admitted :
                       \/ prob(j) > prob(i)
                       \/ prob(j) = prob(i) /\ j <= i})
    IN  [k \in 1..Cardinality(admitted) |-> CHOOSE i \in admitted : rank(i) = k]

\* _select_immediate_responders: the active personas a draw admits, sorted,
\* cut to responder_count
SelectImmediateResponders(admitted, count) ==
    LET candidates == SortedCandidates({i \in admitted : ResponderPersonas[i].is_active})
        responder_count == Min(count, Len(candidates))
    IN  [k \in 1..responder_count |-> ResponderPersonas[candidates[k]].name]

InOrder(set) ==
    LET rank(i) == Cardinality({j \in set : j <= i})
    IN  [k \in 1..Cardinality(set) |-> CHOOSE i \in set : rank(i) = k]

\* _select_follow_up_responders with immediate responders not left out
SelectFollowUpResponders_all(admitted, immediate) ==
    LET candidates == InOrder({i \in admitted : ResponderPersonas[i].is_active})
    IN  [k \in 1..Min(2, Len(candidates)) |-> ResponderPersonas[candidates[k]].name]

\* _select_follow_up_responders: the active personas that were no immediate
\* responder and that a draw admits, in the order of the dict, cut to two
SelectFollowUpResponders(admitted, immediate) ==
    LET immediate_names == {immediate[k] : k \in 1..Len(immediate)}
        candidates == InOrder({i \in admitted :
                          /\ ResponderPersonas[i].is_active
                          /\ ResponderPersonas[i].name \notin immediate_names})
    IN  [k \in 1..Min(2, Len(candidates)) |-> ResponderPersonas[candidates[k]].name]

FanIdle ==
    /\ fan_pc = "off"
    /\ fan_clock = 0
    /\ trigger_time = 0
    /\ fan_immediate_responders = << >>
    /\ response_pc = << >>
    /\ follow_up_pc = "none"
    /\ follow_up_wake = 0
    /\ follow_up_responders = << >>
    /\ follow_up_i = 0
    /\ follow_up_post_at = 0
    /\ responses = << >>

\* the application runs and the user has not posted yet
FanInit ==
    /\ fan_pc = "idle"
    /\ fan_clock = 0
    /\ trigger_time = 0
    /\ fan_immediate_responders = << >>
    /\ response_pc = [n \in ResponderNames |-> "none"]
    /\ follow_up_pc = "none"
    /\ follow_up_wake = 0
    /\ follow_up_responders = << >>
    /\ follow_up_i = 0
    /\ follow_up_post_at = 0
    /\ responses = [n \in ResponderNames |->
                       [immediate |-> 0, follow_up |-> 0, follow_up_at |-> 0]]

\* time passes
fan_tick(seconds) ==
    /\ fan_pc \in {"idle", "triggered"}
    /\ fan_pc = "idle" => fan_clock + seconds <= MaxTriggerSeconds
    /\ fan_clock + seconds <= MaxFanSeconds
    /\ fan_clock' = fan_clock + seconds
    /\ UNCHANGED <<fan_pc, trigger_time, fan_immediate_responders, response_pc,
                   follow_up_pc, follow_up_wake, follow_up_responders, follow_up_i,
                   follow_up_post_at, responses>>
    /\ UNCHANGED notFan

\* trigger_user_responses: selects the immediate responders, starts a
\* delayed_response thread for each and the delayed_follow_up thread
fan_trigger(admitted, count, sleep) ==
    /\ fan_pc = "idle"
    /\ fan_pc' = "triggered"
    /\ trigger_time' = fan_clock
    /\ fan_immediate_responders' = SelectImmediateResponders(admitted, count)
    /\ response_pc' = [n \in ResponderNames |->
          IF \E k \in 1..Len(fan_immediate_responders') : fan_immediate_responders'[k] = n
          THEN "sleeping" ELSE "none"]
    /\ follow_up_pc' = "sleeping"
    /\ follow_up_wake' = fan_clock + sleep
    /\ UNCHANGED <<fan_clock, follow_up_responders, follow_up_i, follow_up_post_at,
                   responses>>
    /\ UNCHANGED notFan

\* delayed_response: after its sleep _generate_user_response, and with a
\* response add_post
delayed_response(n, responded) ==
    /\ response_pc[n] = "sleeping"
    /\ response_pc' = [response_pc EXCEPT ![n] = "done"]
    /\ responses' = IF responded
                    THEN [responses EXCEPT ![n].immediate = @ + 1]
                    ELSE responses
    /\ UNCHANGED <<fan_pc, fan_clock, trigger_time, fan_immediate_responders,
                   follow_up_pc, follow_up_wake, follow_up_responders, follow_up_i,
                   follow_up_post_at>>
    /\ UNCHANGED notFan

\* delayed_follow_up: its sleep is over, it selects the follow-up responders
delayed_follow_up_select(admitted) ==
    /\ follow_up_pc = "sleeping"
    /\ fan_clock >= follow_up_wake
    /\ follow_up_responders' = SelectFollowUpResponders(admitted, fan_immediate_responders)
    /\ follow_up_i' = 1
    /\ follow_up_pc' = IF Len(follow_up_responders') = 0 THEN "done" ELSE "generate"
    /\ UNCHANGED <<fan_pc, fan_clock, trigger_time, fan_immediate_responders, response_pc,
                   follow_up_wake, follow_up_post_at, responses>>
    /\ UNCHANGED notFan

\* delayed_follow_up: _generate_follow_up_response for the persona at
\* follow_up_i; with a response it sleeps before add_post, without one it
\* goes on to the next persona
delayed_follow_up_generate(responded, delay) ==
    /\ follow_up_pc = "generate"
    /\ IF responded
       THEN /\ follow_up_pc' = "post_sleep"
            /\ follow_up_post_at' = fan_clock + delay
            /\ UNCHANGED follow_up_i
       ELSE /\ follow_up_pc' = IF follow_up_i = Len(follow_up_responders)
                               THEN "done" ELSE "generate"
            /\ follow_up_i' = follow_up_i + 1
            /\ UNCHANGED follow_up_post_at
    /\ UNCHANGED <<fan_pc, fan_clock, trigger_time, fan_immediate_responders, response_pc,
                   follow_up_wake, follow_up_responders, responses>>
    /\ UNCHANGED notFan

\* delayed_follow_up: the sleep before the post is over, add_post
delayed_follow_up_post ==
    /\ follow_up_pc = "post_sleep"
    /\ fan_clock >= follow_up_post_at
    /\ responses' = [responses EXCEPT
          ![follow_up_responders[follow_up_i]] =
              [@ EXCEPT !.follow_up = @ + 1, !.follow_up_at = fan_clock]]
    /\ follow_up_pc' = IF follow_up_i = Len(follow_up_responders)
                       THEN "done" ELSE "generate"
    /\ follow_up_i' = follow_up_i + 1
    /\ UNCHANGED <<fan_pc, fan_clock, trigger_time, fan_immediate_responders, response_pc,
                   follow_up_wake, follow_up_responders, follow_up_post_at>>
    /\ UNCHANGED notFan

(***************************************************************************)
(* Specifications                                                          *)
(***************************************************************************)

InitClean == CleanInit /\ GenIdle /\ ProbIdle /\ PersonaIdle /\ LegacyIdle /\ SelectIdle
    /\ SchedIdle
    /\ CycleIdle /\ StatIdle /\ ProbeIdle /\ LoopIdle
    /\ BatchIdle
    /\ LogIdle
    /\ CommitIdle
    /\ FanIdle

NextClean ==
    \/ \E impl \in Cleaners : FirstPass(impl)
    \/ SecondPass

SpecClean == InitClean /\ [][NextClean]_vars

InitGen == GenInit /\ CleanIdle /\ ProbIdle /\ PersonaIdle /\ LegacyIdle /\ SelectIdle
    /\ SchedIdle
    /\ CycleIdle /\ StatIdle /\ ProbeIdle /\ LoopIdle
    /\ BatchIdle
    /\ LogIdle
    /\ CommitIdle
    /\ FanIdle

NextGen ==
    \/ GenStart
    \/ \E reply \in G4FReplies : G4FAttempt(reply)
    \/ GeminiUnavailable
    \/ \E reply \in GeminiReplies : GeminiAttempt(reply)
    \/ GenReturn

SpecGen == InitGen /\ [][NextGen]_vars

InitProb == ProbInit /\ CleanIdle /\ GenIdle /\ PersonaIdle /\ LegacyIdle /\ SelectIdle
    /\ SchedIdle
    /\ CycleIdle /\ StatIdle /\ ProbeIdle /\ LoopIdle
    /\ BatchIdle
    /\ LogIdle
    /\ CommitIdle
    /\ FanIdle

NextProb ==
    \/ \E value \in ScaleValues : update_interval(value)
    \/ \E elapsed \in ElapsedValues, posts \in PostCounts : CheckInterval(elapsed, posts)
    \/ ComputeProbability
    \/ \E r \in RandomValues : Admit(r)
    \/ NextPass

SpecProb == InitProb /\ [][NextProb]_vars

\* a behaviour runs one of the two persona modules
InitPersona ==
    /\ \/ PersonaInit /\ LegacyIdle
       \/ PersonaIdle /\ LegacyInit
    /\ CleanIdle /\ GenIdle /\ ProbIdle /\ SelectIdle /\ SchedIdle
    /\ CycleIdle /\ StatIdle /\ ProbeIdle /\ LoopIdle
    /\ BatchIdle
    /\ LogIdle
    /\ CommitIdle
    /\ FanIdle

NextPersona ==
    \/ \E n \in PersonaNames, thread_found \in BOOLEAN, content \in ContentKinds :
          PreparePost(n, thread_found, content)
    \/ \E raised \in BOOLEAN, id \in InsertResults : ExecutePost(raised, id)
    \/ AutoPostReturn
    \/ \E n \in PersonaNames : record_user_interaction(n)
    \/ update_all_personas
    \/ Tick
    \/ save_all_personas
    \/ \E d \in ConstructionDraws : load_personas_from_db(d)
    \/ \E response_ok \in BOOLEAN, stimulus \in Stimuli, raised \in BOOLEAN,
          id \in InsertResults, evicted_positive \in BOOLEAN :
          legacy_generate_auto_post(response_ok, stimulus, raised, id, evicted_positive)
    \/ \E stimulus \in Stimuli, evicted_positive \in BOOLEAN :
          legacy_record_user_interaction(stimulus, evicted_positive)
    \/ legacy_initialize_personas

SpecPersona == InitPersona /\ [][NextPersona]_vars

InitSelect ==
    /\ SelectInit /\ CleanIdle /\ GenIdle /\ ProbIdle /\ PersonaIdle /\ LegacyIdle
    /\ SchedIdle
    /\ CycleIdle /\ StatIdle /\ ProbeIdle /\ LoopIdle
    /\ BatchIdle
    /\ LogIdle
    /\ CommitIdle
    /\ FanIdle

NextSelect ==
    \/ ComputeWeights
    \/ \E quarter \in 0..4 : DrawPersona(quarter)

SpecSelect == InitSelect /\ [][NextSelect]_vars

InitSched ==
    /\ SchedInit /\ CleanIdle /\ GenIdle /\ ProbIdle /\ PersonaIdle /\ LegacyIdle
    /\ SelectIdle
    /\ CycleIdle /\ StatIdle /\ ProbeIdle /\ LoopIdle
    /\ BatchIdle
    /\ LogIdle
    /\ CommitIdle
    /\ FanIdle

NextSched ==
    \/ \E n \in PersonaNames : AmbientBegin(n)
    \/ AmbientEnd
    \/ \E n \in PersonaNames : schedule_single_post(n)
    \/ \E k \in 1..ScheduledPerThread : execute_scheduled_posts(k)
    \/ \E immediate_responders \in SUBSET PersonaNames :
          trigger_user_responses(immediate_responders)
    \/ \E t \in 1..MaxTriggers, n \in PersonaNames : ResponseBegin(t, n)
    \/ \E t \in 1..MaxTriggers, n \in PersonaNames : ResponseEnd(t, n)
    \/ \E t \in 1..MaxTriggers, admitted \in SUBSET PersonaNames :
          FollowUpSelect(t, admitted)
    \/ \E t \in 1..MaxTriggers : FollowUpBegin(t)
    \/ \E t \in 1..MaxTriggers : FollowUpEnd(t)

SpecSched == InitSched /\ [][NextSched]_vars


\* the ambient loop posting for its candidates, with the provider chain
InitCycle ==
    /\ CycleInit /\ GenInit /\ PersonaInit /\ StatIdle /\ ProbeIdle /\ LoopIdle
    /\ Len(available_combinations) <= MaxCycleCombinations
    /\ CleanIdle /\ ProbIdle /\ LegacyIdle /\ SelectIdle /\ SchedIdle
    /\ BatchIdle
    /\ LogIdle
    /\ CommitIdle
    /\ FanIdle

NextCycle ==
    \/ \E n \in PersonaNames, thread_found \in BOOLEAN :
          generate_auto_post_begin(n, thread_found)
    \/ auto_pc = "content" /\ GenStart
    \/ \E reply \in G4FReplies : G4FAttempt(reply)
    \/ GeminiUnavailable
    \/ \E reply \in GeminiReplies : GeminiAttempt(reply)
    \/ \E content \in ContentKinds \ {"empty"} : ContentReturn(content)
    \/ \E raised \in BOOLEAN, id \in InsertResults : ExecutePost(raised, id)
    \/ AutoPostReturn
    \/ AfterAutoPost

SpecCycle == InitCycle /\ [][NextCycle]_vars


InitStat ==
    /\ StatInit
    /\ CleanIdle /\ ProbIdle /\ PersonaIdle /\ LegacyIdle /\ SelectIdle
    /\ SchedIdle /\ CycleIdle /\ ProbeIdle /\ LoopIdle
    /\ BatchIdle
    /\ LogIdle
    /\ CommitIdle
    /\ FanIdle

NextStat ==
    \/ \E w \in StatThreads, binding \in StatBindings, success \in BOOLEAN :
          update_stats_select(w, binding, success)
    \/ \E w \in StatThreads : update_stats_write(w)

SpecStat == InitStat /\ [][NextStat]_vars


InitProbe ==
    /\ ProbeInit
    /\ CleanIdle /\ GenIdle /\ ProbIdle /\ PersonaIdle /\ LegacyIdle /\ SelectIdle
    /\ SchedIdle /\ CycleIdle /\ StatIdle /\ LoopIdle
    /\ BatchIdle
    /\ LogIdle
    /\ CommitIdle
    /\ FanIdle

NextProbe ==
    \/ \E outcome \in ProbeOutcomesFrom(1) : find_available_providers_test(outcome)
    \/ find_available_providers_assign
    \/ find_available_providers_sort
    \/ legacy_generate_response_check
    \/ get_best_provider
    \/ \E outcome \in {"ok", "invalid", "raise"} : legacy_attempt(outcome)

SpecProbe == InitProbe /\ [][NextProbe]_vars


InitLoop ==
    /\ LoopInit
    /\ CleanIdle /\ ProbIdle /\ PersonaIdle /\ LegacyIdle /\ SelectIdle
    /\ SchedIdle /\ StatIdle /\ ProbeIdle
    /\ BatchIdle
    /\ LogIdle
    /\ CommitIdle
    /\ FanIdle

NextLoop ==
    \/ LoopTick
    \/ \E enabled \in BOOLEAN : set_ai_activity(enabled)
    \/ on_window_close
    \/ process_exit
    \/ scheduler_worker_head
    \/ scheduler_worker_wake
    \/ \E ok \in BOOLEAN : scheduler_execute(ok)
    \/ \E persona_found \in BOOLEAN, delay \in ExecuteDelays :
          scheduler_schedule(persona_found, delay)
    \/ \E admitted \in SUBSET DOMAIN ThreadLocked : ambient_worker_head(admitted)
    \/ \E success \in BOOLEAN : ambient_post(success)
    \/ ambient_worker_wake

SpecLoop == InitLoop /\ [][NextLoop]_vars

\* the two loops with the exceptions their except clauses catch, at one
\* reading of the clock
InitAbsorb ==
    /\ LoopInit
    /\ CleanIdle /\ ProbIdle /\ PersonaIdle /\ LegacyIdle /\ SelectIdle
    /\ SchedIdle /\ StatIdle /\ ProbeIdle
    /\ BatchIdle
    /\ LogInit
    /\ CommitIdle
    /\ FanIdle

NextAbsorb ==
    \/ on_window_close
    \/ process_exit
    \/ scheduler_worker_head
    \/ scheduler_worker_wake
    \/ \E ok \in BOOLEAN : scheduler_execute(ok)
    \/ \E persona_found \in BOOLEAN, delay \in ExecuteDelays :
          scheduler_schedule(persona_found, delay)
    \/ \E admitted \in SUBSET DOMAIN ThreadLocked : ambient_worker_head(admitted)
    \/ \E success \in BOOLEAN : ambient_post(success)
    \/ ambient_worker_wake
    \/ ambient_raise
    \/ scheduler_raise
    \/ scheduler_error_wake

\* time.sleep returns, and a thread that can run does
FairAbsorb ==
    /\ WF_vars(ambient_worker_wake)
    /\ WF_vars(scheduler_error_wake)
    /\ WF_vars(\E admitted \in SUBSET DOMAIN ThreadLocked : ambient_worker_head(admitted))
    /\ WF_vars(scheduler_worker_head)

SpecAbsorb == InitAbsorb /\ [][NextAbsorb]_vars /\ FairAbsorb


InitBatch ==
    /\ BatchInit
    /\ CleanIdle /\ GenIdle /\ ProbIdle /\ PersonaIdle /\ LegacyIdle /\ SelectIdle
    /\ SchedIdle /\ CycleIdle /\ StatIdle /\ ProbeIdle /\ LoopIdle
    /\ LogIdle
    /\ CommitIdle
    /\ FanIdle

NextBatch ==
    \/ \E order \in CandidateOrders, choice \in PostChoices,
          seconds \in NoCandidateSleeps \cup {0} : batch_head(order, choice, seconds)
    \/ \E success \in BOOLEAN : batch_post(success)
    \/ \E seconds \in {5, 15, 30, 60, 120} : batch_sleep(seconds)
    \/ batch_wake

SpecBatch == InitBatch /\ [][NextBatch]_vars

InitCommit ==
    /\ CommitInit
    /\ CleanIdle /\ GenIdle /\ ProbIdle /\ PersonaIdle /\ LegacyIdle /\ SelectIdle
    /\ SchedIdle /\ CycleIdle /\ StatIdle /\ ProbeIdle /\ LoopIdle
    /\ BatchIdle /\ LogIdle
    /\ FanIdle

NextCommit ==
    \/ \E c \in AddPostCallers, t \in CommitThreads, n \in PersonaNames,
          inserted \in BOOLEAN : add_post_insert(c, t, n, inserted)
    \/ \E c \in AddPostCallers : add_post_update_stats(c)
    \/ \E c \in AddPostCallers : add_post_update_ai_time(c)
    \/ \E c \in AddPostCallers : add_post_caller_done(c)
    \/ \E t \in CommitThreads, n \in PersonaNames, inserted \in BOOLEAN :
          execute_post_insert(t, n, inserted)
    \/ execute_post_update
    \/ generate_auto_post_done
    \/ commit_tick

SpecCommit == InitCommit /\ [][NextCommit]_vars

\* personas that have posted up to the cap of their interaction history,
\* or not at all
InitMemory ==
    /\ \E d \in ConstructionDraws, h \in [PersonaNames -> {0, HistoryCap - 1}] :
          personas = [n \in PersonaNames |->
                        [NewPersona(GenderOf[n], d) EXCEPT
                            !.history_len = h[n], !.post_count = h[n]]]
    /\ db_personas = [n \in PersonaNames |-> SavedRow(personas[n])]
    /\ now = 0
    /\ auto_pc = "idle"
    /\ auto_persona = "none"
    /\ post_content = "empty"
    /\ post_id = 0
    /\ auto_result = FALSE
    /\ persona_ops = 0
    /\ CleanIdle /\ GenIdle /\ ProbIdle /\ LegacyIdle /\ SelectIdle
    /\ SchedIdle /\ CycleIdle /\ StatIdle /\ ProbeIdle /\ LoopIdle
    /\ BatchIdle /\ LogIdle /\ CommitIdle
    /\ FanIdle

NextMemory ==
    \/ \E n \in PersonaNames, thread_found \in BOOLEAN, content \in ContentKinds :
          PreparePost(n, thread_found, content)
    \/ \E raised \in BOOLEAN, id \in InsertResults : ExecutePost(raised, id)
    \/ AutoPostReturn
    \/ \E n \in PersonaNames : record_user_interaction(n)

SpecMemory == InitMemory /\ [][NextMemory]_vars


InitFan ==
    /\ FanInit
    /\ CleanIdle /\ GenIdle /\ ProbIdle /\ PersonaIdle /\ LegacyIdle /\ SelectIdle
    /\ SchedIdle /\ CycleIdle /\ StatIdle /\ ProbeIdle /\ LoopIdle
    /\ BatchIdle /\ LogIdle /\ CommitIdle

NextFan ==
    \/ \E seconds \in FanTicks : fan_tick(seconds)
    \/ \E admitted \in ImmediateAdmissions, count \in ResponderCounts,
          sleep \in FollowUpSleeps : fan_trigger(admitted, count, sleep)
    \/ \E n \in ResponderNames, responded \in BOOLEAN : delayed_response(n, responded)
    \/ \E admitted \in SUBSET (1..Len(ResponderPersonas)) :
          delayed_follow_up_select(admitted)
    \/ \E responded \in BOOLEAN, delay \in FollowUpPostDelays :
          delayed_follow_up_generate(responded, delay)
    \/ delayed_follow_up_post

SpecFan == InitFan /\ [][NextFan]_vars

(***************************************************************************)
(* Claims on response cleaning                                             *)
(***************************************************************************)

\* C5: cleaning is idempotent: for AIManager._clean_response and
\* G4FManager.clean_response, cleaning the result of a cleaning pass returns
\* that result again, an accepted text identically and a rejected one
\* (the empty text) rejected.
C5_CleanIdempotent ==
    (passes = 2 /\ cleaner \in {"AIManager", "G4FManager"}) => text_out = text_prev

\* hiragana U+3041..U+309F, katakana U+30A0..U+30FF, kanji U+4E00..U+9FFF
JapaneseScript == (12353..12447) \cup (12448..12543) \cup (19968..40959)

ScriptCharCount(s) == Cardinality({i \in 1..Len(s) : s[i] \in JapaneseScript})

\* C6: a trimmed text with at least two Japanese-script characters that
\* matches no refusal/error pattern and no disallowed pattern and is within
\* the length budget comes back unchanged from AIManager._clean_response and
\* GeminiCLIManager._clean_response.
C6_AcceptsJapaneseUnchanged ==
    ( /\ passes = 1
      /\ cleaner \in {"AIManager", "GeminiCLIManager"}
      /\ Strip(text_in) = text_in
      /\ ScriptCharCount(text_in) >= MinJapaneseChars
      /\ ~AIMatchesErrorPattern(text_in)
      /\ ~GeminiMatchesInappropriate(text_in)
      /\ Len(text_in) <= MaxResponseLen )
    => text_out = text_in

\* C7: a text that matches a refusal/error pattern of its cleaner, has fewer
\* than two Japanese-script characters, or is empty after trimming is
\* rejected (the empty text) by AIManager._clean_response and by
\* G4FManager.clean_response.
C7_RejectsInvalid ==
    ( /\ passes = 1
      /\ cleaner \in {"AIManager", "G4FManager"}
      /\ \/ (cleaner = "AIManager" /\ AIMatchesErrorPattern(Strip(text_in)))
         \/ (cleaner = "G4FManager" /\ G4FMatchesErrorPattern(Strip(text_in)))
         \/ ScriptCharCount(text_in) < MinJapaneseChars
         \/ Strip(text_in) = <<>> )
    => text_out = <<>>

RECURSIVE SumFailures(_, _)
SumFailures(rows, i) ==
    IF i > Len(rows) THEN 0 ELSE rows[i].failure_count + SumFailures(rows, i + 1)

RECURSIVE SumSuccesses(_, _)
SumSuccesses(rows, i) ==
    IF i > Len(rows) THEN 0 ELSE rows[i].success_count + SumSuccesses(rows, i + 1)

\* C2: when the first call of generate_response ends with the K-th G4F
\* combination succeeding after combinations 1..K-1 failed (each raised or
\* gave content that _clean_response rejects), it returns the cleaned text
\* of combination K and the statistics hold exactly K-1 failures and 1
\* success.
C2_FailoverCompleteness ==
    (gen_pc = "done" /\ calls = 1 /\ gen_result /= NoneValue /\ gemini_attempt = 0)
        => /\ gen_result = AIClean(attempts[Len(attempts)].reply)
           /\ SumFailures(stats, 1) = Len(attempts) - 1
           /\ SumSuccesses(stats, 1) = 1

InUnit(scalars) == \A f \in DOMAIN scalars : 0 <= scalars[f] /\ scalars[f] <= Unit

\* C4: in every reachable state of either persona module, after
\* construction, posting feedback, user interactions, decay, learning and
\* restore, every personality trait and every emotion of every persona is
\* between 0 and 1.
C4_ClampingInvariant ==
    /\ auto_pc /= "off" =>
          \A n \in DOMAIN personas :
             InUnit(personas[n].personality) /\ InUnit(personas[n].emotions)
    /\ legacy_pc /= "off" =>
          InUnit(legacy.personality) /\ InUnit(legacy.emotions)

\* a persona that started at happiness 0.65 has made four positive posts:
\* the fourth addition of 0.1 was cut off at 1
C4_Witness ==
    /\ auto_pc /= "off"
    /\ \E n \in DOMAIN personas :
          /\ personas[n].emotions.happiness = Unit
          /\ personas[n].post_count = 4
          /\ persona_ops = 4

\* C10: whenever the insert of _execute_post returns no valid post id or
\* the call raises, generate_auto_post returns False, no persona's
\* post_count, last_post_time, emotions or memory changes, and the selected
\* persona is still active; the earlier module likewise leaves its persona
\* as it was whenever its generate_auto_post returns False.
C10_FailedCommitKeepsState ==
    [][ /\ (auto_pc = "execute" /\ auto_pc' = "done" /\ post_id' <= 0)
            => /\ auto_result' = FALSE
               /\ personas' = personas
               /\ personas'[auto_persona].is_active
        /\ (legacy_pc = "idle" /\ legacy_now' /= legacy_now /\ legacy_result' = FALSE)
            => legacy' = legacy ]_vars

\* generate_auto_post got as far as _execute_post, whose insert returned -1
C10_Witness ==
    /\ auto_pc = "done"
    /\ post_content /= "empty"
    /\ post_id = -1
    /\ auto_result = FALSE

\* C8: in every call of persona selection every active persona gets a
\* weight above zero, whatever its activity level, the time since its last
\* post and its topic relevance.
C8_NoZeroWeight ==
    sel_pc /= "idle" =>
        \A i \in 1..Len(persona_weights) : persona_weights[i] > 0

\* C9: with one persona of activity 0.9 that posted an hour ago and ten of
\* activity 0.1 that posted this instant, the weight of the first is more
\* than 70% of the total weight.
C9_FavoursActiveRested ==
    (sel_pc /= "idle" /\ active_personas = ScenarioPool) =>
        persona_weights[1] * 10 > 7 * SumTo(persona_weights, Len(persona_weights))

\* C1: for every persona, under every interleaving of the ambient loop, the
\* PostScheduler worker and the response threads, at most one call of
\* generate_response is in flight on its behalf.
C1_AtMostOneInFlight ==
    ambient_pc /= "off" => \A n \in PersonaNames : InFlight(n) <= 1


(***************************************************************************)
(* Claims on total generation failure                                      *)
(***************************************************************************)

\* C11: while generate_response has nothing but None to give (every G4F
\* combination and the Gemini CLI failed, or none was there), no step of the
\* cycle changes a persona, generate_auto_post does not reach _execute_post
\* and answers False, and the worker, having that answer, takes the next
\* candidate or ends the cycle.
C11_FailureSkipsPost ==
    [][ /\ gen_result' = NoneValue =>
            /\ personas' = personas
            /\ auto_pc' /= "execute"
            /\ (auto_pc' = "done" => ~auto_result')
        /\ (cycle_pc = "calling" /\ auto_pc = "idle") =>
            cycle_pc' \in {"next", "sleep"} ]_vars

\* the first candidate's generation failed with every combination and the
\* Gemini CLI tried, nothing was posted, and the loop is at the second
C11_Witness ==
    /\ cycle_pc = "next"
    /\ post_i = 2
    /\ calls = 1
    /\ gen_result = NoneValue
    /\ Len(attempts) = Len(available_combinations)
    /\ Len(attempts) >= 2
    /\ gemini_attempt = GeminiMaxRetries
    /\ failure_count = 1
    /\ actual_posts = 0
    /\ \A n \in PersonaNames : personas[n].post_count = 0

(***************************************************************************)
(* Claims on the provider statistics                                       *)
(***************************************************************************)

\* the rows of the statistics table for one provider name and model name
RowsOf(provider_name, model_name) ==
    {i \in 1..Len(stats) : /\ stats[i].provider_name = provider_name
                           /\ stats[i].model_name = model_name}

\* C12: when generate_response has returned, every combination it attempted
\* has a statistics row that counts the attempt once, as a success or as a
\* failure, and the row of the Gemini CLI counts every attempt made on it.
C12_EveryAttemptRecorded ==
    gen_pc = "done" =>
        /\ \A k \in 1..Len(attempts) :
              \E i \in RowsOf(G4FStatName(attempts[k].combination),
                              attempts[k].combination.model) :
                  /\ stats[i].total_requests = 1
                  /\ stats[i].success_count + stats[i].failure_count = 1
        /\ gemini_attempt > 0 =>
              \E i \in RowsOf("Gemini CLI", "gemini-pro") :
                  /\ stats[i].total_requests = gemini_attempt
                  /\ stats[i].success_count + stats[i].failure_count = gemini_attempt

\* C13: while threads run _update_stats, the statistics table holds at most
\* one row for a (provider, model) pair, and exactly one for a pair whose
\* update has finished.
C13_OneRecordPerBinding ==
    /\ \A b \in StatBindings : Cardinality(RowsOf(b[1], b[2])) <= 1
    /\ \A w \in StatThreads :
          (stat_calls[w].pc = "idle" /\ stat_calls[w].made > 0) =>
              Cardinality(RowsOf(stat_calls[w].binding[1],
                                 stat_calls[w].binding[2])) = 1

(***************************************************************************)
(* Claims on the provider probe                                            *)
(***************************************************************************)

\* C14: while a probe runs, the list a reader takes its provider from is
\* ranked by response time ascending and the provider taken is its fastest.
C14_ReadersSeeRankedList ==
    reader_pc = "calling" =>
        /\ \A i \in 1..(Len(seen_providers) - 1) :
              seen_providers[i].response_time <= seen_providers[i + 1].response_time
        /\ \A i \in 1..Len(seen_providers) :
              best_provider.response_time <= seen_providers[i].response_time

(***************************************************************************)
(* Claims on the posting loops                                             *)
(***************************************************************************)

\* a step in which worker w commits an AI post
CommitsBy(w) ==
    /\ \E t \in DOMAIN ai_posts : ai_posts'[t] > ai_posts[t]
    /\ IF w = "scheduler_worker"
       THEN sched_pc = "execute" /\ sched_pc' = "schedule"
       ELSE cycle_pc = "next" /\ post_i' = post_i + 1

\* C15: once on_window_close has asked the loops to stop, no worker begins
\* another sleep: it finishes the cycle it is in and leaves its loop.
C15_GracefulStop ==
    [][ window_closed =>
          /\ sched_pc' = "sleep" => sched_pc = "sleep"
          /\ cycle_pc' = "sleep" => cycle_pc = "sleep" ]_vars

\* C16: a worker commits no AI post in a cycle it began after AI activity
\* was switched off and before it was switched on again.
C16_DisabledMeansNoPosts ==
    [][ \A w \in Workers : CommitsBy(w) => ~began_while_disabled[w] ]_vars

\* C18: with no G4F combination and no Gemini CLI to generate with, no step
\* of a posting loop commits an AI post.
C18_NoBindingsNoPosts ==
    [][ ~HasBinding => \A t \in DOMAIN ai_posts : ai_posts'[t] = ai_posts[t] ]_vars

\* C20: a loop takes a thread into its posting pipeline (the ambient loop
\* into its candidates, the scheduler into a scheduled post) only when the
\* thread is not locked and its last AI post is at least auto_post_interval
\* seconds old at that moment.
C20_CandidatesAreRested ==
    [][ /\ Len(scheduled_intents') > Len(scheduled_intents) =>
              LET t == scheduled_intents'[Len(scheduled_intents')].thread_id
              IN  /\ ~ThreadLocked[t]
                  /\ SecondsSinceLastAiPost(t) >= auto_post_interval
        /\ (cycle_pc = "top" /\ cycle_pc' = "next") =>
              \A k \in 1..Len(cand') :
                  /\ ~ThreadLocked[cand'[k]]
                  /\ SecondsSinceLastAiPost(cand'[k]) >= auto_post_interval ]_vars

\* the ids of the posts on the scheduler's list
ScheduledIds == {scheduled_intents[i].id : i \in 1..Len(scheduled_intents)}

\* C17 as stated: when the scheduler worker has ended, add_post has been
\* attempted exactly once for every post that was ever scheduled.
C17_EveryIntentConsumed ==
    sched_pc = "exited" =>
        \A k \in 1..(next_intent - 1) : commit_attempts[k] = 1

\* C17: a scheduled post is taken off the list at most once, add_post is
\* attempted for it exactly then and never again, never before its
\* execute_time, and it is not on the list afterwards; once the scheduler
\* worker has ended, the posts still on the list stay there unattempted.
C17_IntentConsumedAtMostOnce ==
    [][ /\ \A k \in DOMAIN commit_attempts :
              /\ commit_attempts'[k] <= 1
              /\ commit_attempts'[k] > commit_attempts[k] =>
                    /\ \E i \in 1..Len(scheduled_intents) :
                          /\ scheduled_intents[i].id = k
                          /\ scheduled_intents[i].execute_time <= wall_clock
                    /\ k \notin ScheduledIds'
              /\ (k \in ScheduledIds /\ k \notin ScheduledIds') =>
                    commit_attempts'[k] = commit_attempts[k] + 1
              /\ k \in ScheduledIds' => commit_attempts'[k] = 0
        /\ Cardinality(ScheduledIds') = Len(scheduled_intents')
        /\ sched_pc = "exited" =>
              /\ scheduled_intents' = scheduled_intents
              /\ commit_attempts' = commit_attempts ]_vars

\* a post was committed once its time had come, while a later one waits
C17_Witness ==
    /\ \E k \in DOMAIN commit_attempts :
          commit_attempts[k] = 1 /\ k \notin ScheduledIds
    /\ \E i \in 1..Len(scheduled_intents) :
          scheduled_intents[i].execute_time > wall_clock

(***************************************************************************)
(* Claims on the order of the attempts of generate_response                *)
(***************************************************************************)

\* the reply of a combination is one generate_response returns
PassesClean(reply) ==
    /\ reply /= Raise
    /\ reply /= <<>>
    /\ AIClean(reply) /= <<>>

\* C19: within a call of generate_response the combinations are attempted
\* in the order of available_combinations, each at most once; every attempt
\* before the last one failed, and a last attempt that passes
\* _clean_response ends the call with its cleaned text and without any
\* Gemini attempt; the Gemini CLI is attempted only after every combination
\* was attempted and failed, at most GeminiMaxRetries times, and the call
\* has returned once that many attempts were made.
C19_FailoverOrder ==
    /\ Len(attempts) <= Len(available_combinations)
    /\ \A k \in 1..Len(attempts) :
          attempts[k].combination = available_combinations[k]
    /\ \A k \in 1..(Len(attempts) - 1) : ~PassesClean(attempts[k].reply)
    /\ (attempts /= <<>> /\ PassesClean(attempts[Len(attempts)].reply)) =>
          /\ gen_pc \in {"done", "idle"}
          /\ gen_result = AIClean(attempts[Len(attempts)].reply)
          /\ gemini_attempt = 0
    /\ gemini_attempt > 0 =>
          /\ Len(attempts) =
                (IF g4f_available THEN Len(available_combinations) ELSE 0)
          /\ \A k \in 1..Len(attempts) : ~PassesClean(attempts[k].reply)
    /\ gemini_attempt <= GeminiMaxRetries
    /\ gemini_attempt = GeminiMaxRetries => gen_pc \in {"done", "idle"}

\* the call returned the text of its second combination after the first
\* one failed, and a third combination was left unattempted
C19_Witness ==
    /\ gen_pc = "done"
    /\ Len(attempts) = 2
    /\ Len(available_combinations) > 2
    /\ ~PassesClean(attempts[1].reply)
    /\ PassesClean(attempts[2].reply)
    /\ gen_result = AIClean(attempts[2].reply)

\* every combination failed and so did the three attempts on the Gemini CLI
C19_GeminiExhausted ==
    /\ gen_pc = "done"
    /\ Len(attempts) >= 2
    /\ gemini_attempt = GeminiMaxRetries
    /\ gen_result = NoneValue

(***************************************************************************)
(* Claims on the batch and the sleep of an ambient cycle                   *)
(***************************************************************************)

\* C21: in every ambient cycle generate_auto_post is called at most 3
\* times and at most once per admitted candidate, for threads that are all
\* different, and at least once when a candidate was admitted; when the for
\* loop has ended it was called exactly max_posts times.
C21_BatchSize ==
    /\ batch_max_posts <= MaxPostsPerCycle
    /\ batch_max_posts <= Len(batch_candidates)
    /\ Len(batch_runs) <= batch_max_posts
    /\ \A a, b \in 1..Len(batch_runs) : a /= b => batch_runs[a] /= batch_runs[b]
    /\ \A a \in 1..Len(batch_runs) :
          \E k \in 1..Len(batch_candidates) : batch_candidates[k] = batch_runs[a]
    /\ (batch_pc \in {"cycle_end", "sleep"}) => Len(batch_runs) = batch_max_posts
    /\ (batch_pc \in {"posting", "cycle_end", "sleep"} /\ batch_candidates /= <<>>)
          => batch_max_posts >= 1

\* four candidates were admitted and the cycle ended after three calls
C21_Witness ==
    /\ batch_pc = "cycle_end"
    /\ Len(batch_candidates) = 4
    /\ Len(batch_runs) = 3

\* C22: in src/bbssys3/main.py a sleep chosen after a cycle that committed
\* a post is never longer than a sleep chosen after a cycle that committed
\* none.
C22_ProductiveSleepsShorter ==
    batch_impl = "bbssys3" =>
        \A a, b \in 1..Len(sleeps) :
            (sleeps[a].posts > 0 /\ sleeps[b].posts = 0)
                => sleeps[a].seconds <= sleeps[b].seconds

(***************************************************************************)
(* Claims on exceptions in the posting loops                               *)
(***************************************************************************)

\* C23: an exception raised inside a cycle of auto_post_worker or of
\* scheduler_worker is logged by the loop's except clause and leaves the
\* worker asleep, not ended; a worker ends only with the process, or, the
\* scheduler, at its loop head after stop; and after the exception the
\* worker comes back to the head of its loop and goes through it again,
\* unless the process ends first.
C23_FailuresAbsorbed ==
    /\ [][ /\ errors_logged'["auto_post_worker"] > errors_logged["auto_post_worker"]
                => cycle_pc' = "sleep"
           /\ errors_logged'["scheduler_worker"] > errors_logged["scheduler_worker"]
                => sched_pc' = "error_sleep"
           /\ (cycle_pc /= "exited" /\ cycle_pc' = "exited") => window_closed
           /\ (sched_pc /= "exited" /\ sched_pc' = "exited")
                => (window_closed \/ (sched_pc = "head" /\ ~is_running)) ]_vars
    /\ (errors_logged["auto_post_worker"] > 0 /\ cycle_pc = "sleep")
          ~> (cycle_pc \in {"top", "exited"})
    /\ (cycle_pc = "top") ~> (cycle_pc \in {"next", "sleep", "exited"})
    /\ (sched_pc = "error_sleep") ~> (sched_pc \in {"head", "exited"})
    /\ (sched_pc = "head") ~> (sched_pc \in {"sleep", "exited"})

\* after an exception in its loop auto_post_worker is posting again
C23_Witness ==
    /\ errors_logged["auto_post_worker"] > 0
    /\ errors_logged["scheduler_worker"] > 0
    /\ cycle_pc = "next"
    /\ sched_pc = "execute"

(***************************************************************************)
(* Claims on the commit of a post                                          *)
(***************************************************************************)

\* the rows of AI posts under a persona's name
AiPostsAs(n) ==
    {i \in 1..Len(post_rows) : /\ post_rows[i].persona_name = n
                               /\ ~post_rows[i].is_user_post}

\* C24: whenever no commit is under way, the post_count of every persona
\* is the number of AI posts committed under its name, and a persona with
\* such a post has a last_post_time.
C24_RecordOutcomeFollowsCommit ==
    (\A c \in Committers : commit_calls[c].pc = "idle") =>
        \A n \in PersonaNames :
            /\ activity[n].post_count = Cardinality(AiPostsAs(n))
            /\ AiPostsAs(n) /= {} => activity[n].last_post_time /= NoTime

\* the time of the latest AI post of a thread, NoTime without one
LatestAiPost(t) ==
    LET S == {i \in 1..Len(post_rows) : /\ post_rows[i].thread_id = t
                                        /\ ~post_rows[i].is_user_post}
    IN  IF S = {} THEN NoTime
        ELSE post_rows[CHOOSE i \in S : \A j \in S : j <= i].created_at

\* C27: in every state of the database, which is what another connection
\* reads, a thread's last_ai_post_time is not older than its latest AI
\* post, and while no post of the user is being committed its post_count
\* is the number of its post rows.
C27_StatsAtomicWithCommit ==
    \A t \in CommitThreads :
        /\ thread_rows[t].last_ai_post_time >= LatestAiPost(t)
        /\ commit_calls["user"].pc = "idle" =>
              thread_rows[t].post_count = PostsOfThread(post_rows, t)

\* C28: add_post returns True only with its post row inserted; when the
\* INSERT failed it returns False and has not written the thread's
\* post_count, last_post_time or last_ai_post_time.
C28_CommitReportsFailure ==
    \A c \in AddPostCallers :
        (commit_calls[c].pc = "returned" /\ commit_calls[c].post_id <= 0) =>
            /\ ~commit_calls[c].result
            /\ ~commit_calls[c].stamped

(***************************************************************************)
(* Claims on the interaction history                                       *)
(***************************************************************************)

\* C25: the interaction history of a persona never holds more than
\* HistoryCap records.
C25_BoundedInteractionHistory ==
    \A n \in DOMAIN personas : personas[n].history_len <= HistoryCap

(***************************************************************************)
(* Claims on the decay of emotions                                         *)
(***************************************************************************)

\* C26: a call of update_all_personas never raises the anger or the
\* sadness of a persona, and it leaves one of them as it was only at 0, so
\* that repeated calls bring both to 0.
C26_DecayReachesZero ==
    [][ ( /\ personas /= << >>
          /\ persona_ops' = persona_ops + 1
          /\ UNCHANGED <<now, auto_pc, db_personas>>
          /\ personas' = [n \in DOMAIN personas |-> DecayPersona(personas[n])] )
        => \A n \in DOMAIN personas, e \in {"anger", "sadness"} :
              /\ personas'[n].emotions[e] <= personas[n].emotions[e]
              /\ personas'[n].emotions[e] = personas[n].emotions[e]
                    => personas[n].emotions[e] = 0 ]_vars

(***************************************************************************)
(* Claims on the provider counters                                         *)
(***************************************************************************)

\* C29: whatever the interleaving of the _update_stats calls of the ambient
\* loop and of the response threads, every row of the statistics table has
\* total_requests = success_count + failure_count.
C29_CountersConsistent ==
    \A i \in 1..Len(stats) :
        stats[i].total_requests = stats[i].success_count + stats[i].failure_count

(***************************************************************************)
(* Claims on the responses to a post of the user                           *)
(***************************************************************************)

Responders(kind) == {n \in DOMAIN responses : responses[n][kind] > 0}

\* C30: one call of trigger_user_responses leads to at most 4 immediate and
\* at most 2 follow-up responses, every responder is an active persona, no
\* persona responds twice, and no follow-up response is committed earlier
\* than 300 seconds after the call.
C30_BoundedFanOut ==
    /\ Cardinality(Responders("immediate")) <= 4
    /\ Cardinality(Responders("follow_up")) <= 2
    /\ \A n \in DOMAIN responses :
          /\ responses[n].immediate + responses[n].follow_up <= 1
          /\ responses[n].immediate + responses[n].follow_up > 0 =>
                \E i \in 1..Len(ResponderPersonas) :
                    /\ ResponderPersonas[i].name = n
                    /\ ResponderPersonas[i].is_active
          /\ responses[n].follow_up > 0 =>
                responses[n].follow_up_at >= trigger_time + 300

\* four immediate responses and two follow-up responses are committed, one
\* of the latter at the first tick of the clock after the 300 seconds
C30_Witness ==
    /\ Cardinality(Responders("immediate")) = 4
    /\ Cardinality(Responders("follow_up")) = 2
    /\ \E n \in Responders("follow_up") :
          responses[n].follow_up_at <= trigger_time + 450
=============================================================================
